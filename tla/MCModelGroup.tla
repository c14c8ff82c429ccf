---------------------------- MODULE MCModelGroup ----------------------------
(* Up to three candidates of two providers: c1 and c2 share provider p1,   *)
(* c2 is the cheapest (c1 within, c3 exactly at the 1.2 margin).           *)
EXTENDS ModelGroup

CONSTANTS c1, c2, c3

MCProvider == [c \in Candidates |-> IF c = c3 THEN "p2" ELSE "p1"]
MCIndex == [c \in Candidates |-> CASE c = c1 -> 1 [] c = c2 -> 2 [] OTHER -> 3]
MCRate == [c \in Candidates |-> CASE c = c1 -> 11 [] c = c2 -> 10 [] OTHER -> 12]
=============================================================================
