----------------------------- MODULE PeerServer -----------------------------
(***************************************************************************)
(* What the bot is promised of a VPN server, and what Access assumes: a    *)
(* peer is absent, on, or off; a call acts on it at one moment between     *)
(* being asked and being answered, and not at all if it is not in progress.*)
(* A call that is reported as failed may have acted (its answer was lost). *)
(***************************************************************************)
CONSTANTS
  Names,        \* peers, by label
  ScriptNames,  \* those that the operator may add by hand
  Calls         \* calls that may be in progress at once

VARIABLES
  peer,  \* "none", "on" or "off"
  call   \* what is asked and how far it is

Commands == {"create", "disable", "enable", "remove"}
NoCall   == [phase |-> "idle"]

Init ==
  /\ peer = [n \in Names |-> "none"]
  /\ call = [c \in Calls |-> NoCall]

Moves(c, phase) == call' = [call EXCEPT ![c].phase = phase]

Ask(c, cmd, n) ==
  /\ call[c] = NoCall
  /\ call' = [call EXCEPT ![c] = [phase |-> "asked", cmd |-> cmd, name |-> n]]
  /\ UNCHANGED peer

\* A peer is made once; one that was switched off is switched on again for as
\* long as it was not removed.
After(cmd, p) ==
  CASE cmd = "create"  -> IF p = "none" THEN "on" ELSE p
    [] cmd = "disable" -> IF p = "on" THEN "off" ELSE p
    [] cmd = "enable"  -> "on"
    [] cmd = "remove"  -> "none"

Act(c) ==
  /\ call[c].phase = "asked"
  /\ call[c].cmd = "enable" => peer[call[c].name] # "none"
  /\ peer' = [peer EXCEPT ![call[c].name] = After(call[c].cmd, @)]
  /\ Moves(c, "done")

\* Removing a peer that is on switches it off first.
SwitchOff(c) ==
  /\ call[c].phase = "asked"
  /\ call[c].cmd = "remove"
  /\ peer[call[c].name] = "on"
  /\ peer' = [peer EXCEPT ![call[c].name] = "off"]
  /\ UNCHANGED call

Fail(c) ==
  /\ call[c].phase \in {"asked", "done"}
  /\ Moves(c, "failed")
  /\ UNCHANGED peer

Answer(c) ==
  /\ call[c].phase \in {"done", "failed"}
  /\ call' = [call EXCEPT ![c] = NoCall]
  /\ UNCHANGED peer

AddByHand(n) ==
  /\ n \in ScriptNames
  /\ peer[n] = "none"
  /\ peer' = [peer EXCEPT ![n] = "on"]
  /\ UNCHANGED call

Next ==
  \/ \E c \in Calls :
       \/ \E cmd \in Commands, n \in Names : Ask(c, cmd, n)
       \/ Act(c) \/ SwitchOff(c) \/ Fail(c) \/ Answer(c)
  \/ \E n \in Names : AddByHand(n)

Spec == Init /\ [][Next]_<<peer, call>>
=============================================================================
