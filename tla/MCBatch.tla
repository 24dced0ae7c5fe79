------------------------------ MODULE MCBatch ------------------------------
(***************************************************************************)
(* One IO group of two executions and one metadata group of one.           *)
(***************************************************************************)
EXTENDS Batch

MCGroupOf == <<1, 1, 2>>
MCKind == <<"io", "mdtest">>

\* One execution may be unparseable, one partial, one without files.
MCQuality == <<{"whole", "broken"}, {"whole", "partial"}, {"whole", "lost"}>>

Ask(kind, only, require, comparison) ==
    [kind |-> kind, groups |-> {}, only |-> only, require |-> require,
     comparison |-> comparison]

\* Everything; one kind; a filtered report; a comparison that cannot be met.
MCRequests ==
    {Ask("all", {}, TRUE, "none"), Ask("io", {}, FALSE, "none"),
     Ask("all", {2}, FALSE, "unknown")}
=============================================================================
