----------------------------- MODULE MCMatching -----------------------------
(* "MAC & CHEESE" is looked up as "mac cheese" and stored as "mac and      *)
(* cheese".  The first is a subsequence of the second, four letters of     *)
(* fourteen away, and not the other way round.                             *)
EXTENDS Matching, TLC

CONSTANTS p1, mc, mac, amp, word

MCPlain == (amp :> mc) @@ (word :> mac)
MCStored == (amp :> mac) @@ (word :> mac)
MCTitle == [p \in Product |-> IF p = p1 THEN mac ELSE mc]
MCScore == [k \in Key \X Key |->
              IF k[1] = k[2] THEN 10 ELSE IF k = <<mc, mac>> THEN 7 ELSE 0]
MCCondition == {{mc}, {mac}}
============================================================================
