------------------------------- MODULE Histories -------------------------------
(***************************************************************************)
(* Histories: sequences of the packets or messages that went through some   *)
(* place, oldest first.  The properties say what they have in common.       *)
(***************************************************************************)
EXTENDS Naturals, Sequences

Elements(s) == {s[n] : n \in DOMAIN s}

(* No element occurs twice. *)
NoRepeats(s) == \A i, j \in DOMAIN s : s[i] = s[j] => i = j

(* The elements of s that are in A, in the order they have in s. *)
Filter(s, A) ==
  LET kept[n \in Nat] ==
        IF n = 0 THEN <<>>
        ELSE IF s[n] \in A THEN Append(kept[n - 1], s[n]) ELSE kept[n - 1]
  IN  kept[Len(s)]
=============================================================================
