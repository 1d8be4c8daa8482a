----------------------------- MODULE HeapRegions -----------------------------
(* What rt_malloc, rt_realloc and rt_free promise their callers: regions of  *)
(* memory, no two of which share a byte, that stay where and as long as they *)
(* are until their owner gives them back or asks for another length.         *)
EXTENDS Integers

CONSTANT Space        \* the bytes there are: 0 .. Space - 1

VARIABLE live         \* the regions that callers have

Region == [at : 0 .. Space, length : Nat]
Apart(r, s) == r.at + r.length <= s.at \/ s.at + s.length <= r.at
Fits(r, others) == /\ r \in Region /\ r.at + r.length <= Space
                   /\ \A s \in others : Apart(r, s)

Init == live = {}

Grant == \E r \in live' : /\ r \notin live /\ Fits(r, live)
                          /\ live' = live \cup {r}

GiveBack == \E r \in live : live' = live \ {r}

\* The same place with another length, or another place while the old one is
\* still there to be copied from.
Resize == \E r \in live, s \in live' :
            /\ Fits(s, IF s.at = r.at THEN live \ {r} ELSE live)
            /\ live' = (live \ {r}) \cup {s}

Next == Grant \/ GiveBack \/ Resize
Spec == Init /\ [][Next]_live
=============================================================================
