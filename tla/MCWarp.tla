------------------------------ MODULE MCWarp ------------------------------
(* Result files and command lines for checking Warp.                       *)
EXTENDS Warp

MCHist(a, b, c) == [x \in {1, 2, 4} |-> CASE x = 1 -> a [] x = 2 -> b [] OTHER -> c]

MCSteady(rate) == [c \in DOMAIN rate |-> <<rate[c]>>]

MCFile(bytes, threads, rate, segs, hists, lost) ==
    [ext |-> "json", bad |-> None, bytes |-> bytes, threads |-> threads,
     rate |-> rate, segs |-> segs, hists |-> hists, single |-> Len(hists) = 1,
     lost |-> lost, stamped |-> TRUE, version |-> "v1"]

\* With units of four, 16 is "1M", 28 is 1.75M, rounded to "2M", and 3 is "3B".
MCFive == <<1, 1, 5, 5, 5>>
MCSlow == MCFile(16, 1, <<1, 3, 3>>, MCSteady(<<1, 3, 3>>),
                 <<MCHist(1, 2, 0), MCHist(0, 1, 3)>>, {})
MCMoved == MCFile(16, 1, <<3, 3, 1>>, << <<1, 5>>, <<3, 3>>, <<3>> >>,
                  <<MCHist(2, 0, 1)>>, {3})
MCLone == [MCFile(16, 2, <<2>>, MCSteady(<<2>>), <<MCHist(1, 0, 0)>>, {}) EXCEPT
            !.version = "v2", !.stamped = FALSE]
MCPair == MCFile(28, 2, <<2, 4>>, <<<<2>>, <<4, 4>>>>,
                 <<[x \in {} |-> 0], MCHist(0, 0, 2)>>, {})
MCMany == MCFile(28, 2, MCFive, [c \in {3, 4} |-> <<5, 5>>], <<[x \in {} |-> 0]>>, {1})
MCText == [MCSlow EXCEPT !.ext = "out", !.lost = {3}, !.version = "v2"]

MCResults ==
    {MCSlow, MCMoved, MCLone, MCPair, MCMany, MCText,
     [MCSlow EXCEPT !.bad = "interim"],
     [MCMoved EXCEPT !.bad = "unreadable"],
     [MCPair EXCEPT !.bad = "corrupt"],
     [MCLone EXCEPT !.bad = "not GET"],
     [MCPair EXCEPT !.bad = "no concurrency"],
     [MCText EXCEPT !.bad = "other name"],
     [MCText EXCEPT !.bad = "no throughput"],
     [MCPair EXCEPT !.hists = <<[x \in {} |-> 0], [x \in {} |-> 0]>>],
     [MCLone EXCEPT !.bytes = 3, !.threads = 1, !.lost = {1}]}

MCOptions ==
    [sizes : {{}, {[n |-> 1, u |-> "M"]}}, threads : {{}, {1}}, perClient : {TRUE}]
        \cup {[sizes |-> {}, threads |-> {}, perClient |-> FALSE]}
===========================================================================
