------------------------------- MODULE MCHid -------------------------------
(***************************************************************************)
(* The HID helpers.  The parts share no state: a behaviour is one part's,  *)
(* chosen by `part`; the others stay where they begin.                     *)
(***************************************************************************)
EXTENDS Ch9329, Hidrig

VARIABLE part
hidParts == <<chVars, rigVars, cutVars, pointerVars>>

Cmd(verb, keys, arg) == [verb |-> verb, keys |-> keys, arg |-> arg]
Char(usage, shift) == [usage |-> usage, shift |-> shift]
MCCommands ==
  { Cmd("combo", {"s", "a"}, "none"), Cmd("down", {"b"}, "none"), Cmd("type", {}, <<Char("b", {}), Char("b", {"s"})>>),
    Cmd("click", {"l"}, "none"), Cmd("mdown", {"l"}, "none"), Cmd("ping", {}, "none"),
    Cmd("usb", {}, "target"), Cmd("baud", {}, 3) }
MCCandidates == <<1, 2>>
MCRigCommands ==
  { [verb |-> "combo", keys |-> <<"s", "a">>], [verb |-> "down", keys |-> <<"b">>],
    [verb |-> "down", keys |-> <<"s">>], [verb |-> "click", keys |-> <<"l">>], [verb |-> "mdown", keys |-> <<"l">>],
    [verb |-> "ping", keys |-> << >>] }
MCStreams == [1..6 -> {0, 1, 2}] \cup {<<3, 0, 2, 2, 3, 2, 0, 0>>}

MCInit ==
  /\ ChInit /\ RigInit /\ PointerInit
  /\ part \in {"ch9329", "hidrig", "split", "pointer"}
  /\ IF part = "split" THEN CutInit ELSE stream = << >> /\ cut = 0

MCNext ==
  \/ part = "ch9329" /\ ChNext /\ UNCHANGED <<part, rigVars, cutVars, pointerVars>>
  \/ part = "hidrig" /\ RigNext /\ UNCHANGED <<part, chVars, cutVars, pointerVars>>
  \/ part = "split" /\ CutNext /\ UNCHANGED <<part, chVars, rigVars, pointerVars>>
  \/ part = "pointer" /\ PointerNext /\ UNCHANGED <<part, chVars, rigVars, cutVars>>

\* The owner threads go on.
MCSpec ==
  /\ MCInit /\ [][MCNext]_<<part, hidParts>>
  /\ WF_chVars(part = "ch9329" /\ Owner) /\ WF_rigVars(part = "hidrig" /\ RigOwner)

\* A pointer goes where it was sent, over every coordinate of the small screens checked; only
\* keys that exist are held; and frames survive any split of the stream (session.rs, hidrig).
InputIsFaithful ==
  /\ ScalingKeepsOrder
  /\ StepsAddUp
  /\ KeysAreKnown
  /\ SplitAnywhere

\* Every queued input is settled, whatever the chip or the board does, and none is written twice.
HidProgress ==
  /\ InjectionNotRepeated
  /\ QueuedIsServed
  /\ RigIsAnswered
=============================================================================
