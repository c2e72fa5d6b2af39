---------------------------- MODULE ResourceLeases ----------------------------
(***************************************************************************)
(* What the resource coordinator promises to the tools, without mutex,     *)
(* queue walk or lease table: a set of callers waiting in order of         *)
(* arrival, and a set of callers that hold everything they asked for.      *)
(***************************************************************************)
EXTENDS Naturals, Sequences

CONSTANTS
  Callers, Keys,
  Conflict(_, _)   \* whether two keys overlap

VARIABLES
  line,      \* callers waiting, oldest first
  holders,   \* callers that own all they asked for
  ask        \* what each caller asks for: Keys -> {"none", "read", "write"}

vars == <<line, holders, ask>>

Overlap(c, d) ==
  \E k, l \in Keys : ask[c][k] # "none" /\ ask[d][l] # "none" /\ Conflict(k, l)

Compatible(c, d) ==
  \A k, l \in Keys : Conflict(k, l) =>
    /\ ask[c][k] = "write" => ask[d][l] = "none"
    /\ ask[d][l] = "write" => ask[c][k] = "none"

InLine(c) == \E i \in DOMAIN line : line[i] = c

Init ==
  /\ line = <<>>
  /\ holders = {}
  /\ \A c \in Callers, k \in Keys : ask[c][k] = "none"

(* A caller that neither waits nor holds decides what it will ask for.     *)
Choose(c) ==
  /\ ~InLine(c) /\ c \notin holders
  /\ \A d \in Callers \ {c} : ask'[d] = ask[d]
  /\ UNCHANGED <<line, holders>>

Arrive(c) ==
  /\ ~InLine(c) /\ c \notin holders
  /\ line' = Append(line, c)
  /\ UNCHANGED <<holders, ask>>

Without(i) == SubSeq(line, 1, i - 1) \o SubSeq(line, i + 1, Len(line))

(* All or nothing, never against a holder, never past somebody who came    *)
(* earlier and wants an overlapping key.                                   *)
Grant(i) ==
  /\ \A d \in holders : Compatible(line[i], d)
  /\ \A j \in 1..(i - 1) : ~Overlap(line[i], line[j])
  /\ line' = Without(i)
  /\ holders' = holders \cup {line[i]}
  /\ UNCHANGED ask

GiveUp(i) ==
  /\ line' = Without(i)
  /\ UNCHANGED <<holders, ask>>

Return(c) ==
  /\ c \in holders
  /\ holders' = holders \ {c}
  /\ UNCHANGED <<line, ask>>

Next ==
  \/ \E c \in Callers : Choose(c) \/ Arrive(c) \/ Return(c)
  \/ \E i \in DOMAIN line : Grant(i) \/ GiveUp(i)

Spec == Init /\ [][Next]_vars
=============================================================================
