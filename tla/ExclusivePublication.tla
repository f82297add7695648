------------------------ MODULE ExclusivePublication ------------------------
(***************************************************************************)
(* What an output call promises its caller: it gives up without effect, or *)
(* it makes an intact snapshot appear, in one step and once, under a name  *)
(* that named nothing.  Nothing is promised about an unrelated program,    *)
(* which may replace or remove the entry, or spoil a call's staging files. *)
(***************************************************************************)
CONSTANTS Writers, Foreign, Nobody

VARIABLES
  status,   \* "running", "published" or "gone", per call
  entry,    \* what the destination names
  spoiled   \* calls whose files an unrelated program edited behind the verification

avars == <<status, entry, spoiled>>

Nothing == [by |-> Nobody]

Init ==
  /\ status = [w \in Writers |-> "running"]
  /\ entry = Nothing
  /\ spoiled = {}

Publish(w) ==
  /\ status[w] = "running"
  /\ entry = Nothing
  /\ status' = [status EXCEPT ![w] = "published"]
  /\ \E ok \in BOOLEAN : entry' = [by |-> w, intact |-> ok] /\ (w \notin spoiled => ok)
  /\ UNCHANGED spoiled

GiveUp(w) ==
  /\ status[w] = "running"
  /\ status' = [status EXCEPT ![w] = "gone"]
  /\ UNCHANGED <<entry, spoiled>>

Interfere ==
  /\ \/ entry' = Nothing
     \/ \E ok \in BOOLEAN : entry' = [by |-> Foreign, intact |-> ok]
  /\ UNCHANGED <<status, spoiled>>

Spoil(w) ==
  /\ status[w] = "running"
  /\ spoiled' = spoiled \cup {w}
  /\ UNCHANGED <<status, entry>>

Next == Interfere \/ \E w \in Writers : Publish(w) \/ GiveUp(w) \/ Spoil(w)

Spec == Init /\ [][Next]_avars

=============================================================================
