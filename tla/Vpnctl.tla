------------------------------- MODULE Vpnctl -------------------------------
(***************************************************************************)
(* vpnctl, the script that changes a VPN server                            *)
(* (scripts/provisioner/vpnctl): the files it keeps, the live interface,   *)
(* and its processes, one per connection, that the lock file serialises.   *)
(* A caller that has given up waiting leaves its process running.          *)
(*                                                                         *)
(* A [Peer] block is its name and its address, which stand for the key pair*)
(* made for it: no address is handed out while a file still names it, and  *)
(* an interface gives an address to the last peer it was set for.          *)
(*                                                                         *)
(* Every write of a file and every call of awg is a step. Between two of   *)
(* them awg or a write may fail, or the process be killed (systemd's       *)
(* RuntimeMaxSec, the bot's timeout in development); each is switched on   *)
(* by a constant of its own, and the faults are counted.                   *)
(*                                                                         *)
(* A definition whose name ends in an underscore and a word is the one     *)
(* before the underscore with a mistake in it, which a property excludes.  *)
(***************************************************************************)
EXTENDS Naturals, Sequences, FiniteSets

CONSTANTS
  Names,        \* clients, by label
  ScriptNames,  \* those that awg-add-client.sh may add
  Addrs,        \* the subnet's host addresses, in order: 1..n
  Procs,        \* processes that may run at once
  AwgFails, WriteFails, Killed,   \* BOOLEAN: the faults that may happen
  MaxFaults,    \* bound: faults in a behaviour
  NoBlock, NoProc

ASSUME VpnctlAssumption ==
  /\ ScriptNames \subseteq Names
  /\ Addrs \subseteq Nat
  /\ {AwgFails, WriteFails, Killed} \subseteq BOOLEAN
  /\ MaxFaults \in Nat
  /\ NoBlock \notin [name : Names, addr : Addrs]
  /\ NoProc \notin Procs

VARIABLES
  conf,    \* the [Peer] blocks of awg1.conf, in order
  live,    \* the peers the interface lets through
  saved,   \* clients/<name>.peer, NoBlock when there is none
  config,  \* clients/<name>.conf, the block its keys belong to
  proc,    \* the processes: what each was asked and how far it is
  lock,    \* the holder of .vpnctl.lock
  faults   \* how many faults there were

vars == <<conf, live, saved, config, proc, lock, faults>>

-----------------------------------------------------------------------------
Commands == {"create", "disable", "enable", "remove"}
Block    == [name : Names, addr : Addrs]
Gone     == [pc |-> "gone"]

Init ==
  /\ conf   = <<>>
  /\ live   = {}
  /\ saved  = [n \in Names |-> NoBlock]
  /\ config = [n \in Names |-> NoBlock]
  /\ proc   = [p \in Procs |-> Gone]
  /\ lock   = NoProc
  /\ faults = 0

\* The places of a client's blocks in awg1.conf.
Named(n) == {i \in DOMAIN conf : conf[i].name = n}

\* find_peer: the first block of that name.
InConf(n)   == Named(n) # {}
FindPeer(n) == conf[CHOOSE i \in Named(n) : \A k \in Named(n) : i <= k]

\* Some places of the file, from the first to the last.
InOrder(S) ==
  {at \in [1..Cardinality(S) -> S] :
     /\ \A i, k \in DOMAIN at : i < k => at[i] < at[k]
     /\ \A x \in S : \E i \in DOMAIN at : at[i] = x}

Blocks    == {conf[i] : i \in DOMAIN conf}
ConfAddrs == {b.addr : b \in Blocks}

\* used_addresses: those of disabled clients count, unless include_saved is off.
Used      == ConfAddrs \union {saved[n].addr : n \in {m \in Names : saved[m] # NoBlock}}

\* awg set: the address goes to this peer, and whoever had it loses it.
AwgSet(b)    == live' = {x \in live : x.addr # b.addr} \union {b}
AwgRemove(b) == live' = live \ {b}

At(p, cmd, pc) == proc[p].pc = pc /\ proc[p].cmd = cmd
Goes(p, pc)    == proc' = [proc EXCEPT ![p].pc = pc]
Takes(p, pc, b) == proc' = [proc EXCEPT ![p].pc = pc, ![p].block = b]

Fault == faults < MaxFaults /\ faults' = faults + 1

\* The process leaves `with srv.lock()` and answers.
Ends(p, result) == Goes(p, result) /\ lock' = NoProc

-----------------------------------------------------------------------------
\* serve: one request of a connection (the clients of the script have labels that
\* the bot, which creates its own, never makes) ...
Request(p, cmd, n) ==
  /\ proc[p] = Gone
  /\ cmd = "create" => n \notin ScriptNames
  /\ proc' = [proc EXCEPT ![p] = [pc |-> "wait", cmd |-> cmd, name |-> n, block |-> NoBlock]]
  /\ UNCHANGED <<conf, live, saved, config, lock, faults>>

Acquire_Unlocked(p) ==
  /\ proc[p].pc = "wait"
  /\ lock' = p
  /\ Goes(p, "begin")
  /\ UNCHANGED <<conf, live, saved, config, faults>>

\* ... that takes the lock ...
Acquire(p) ==
  /\ proc[p].pc = "wait"
  /\ lock = NoProc
  /\ lock' = p
  /\ Goes(p, "begin")
  /\ UNCHANGED <<conf, live, saved, config, faults>>

\* ... and is answered.
Respond(p) ==
  /\ proc[p].pc \in {"ok", "error"}
  /\ proc' = [proc EXCEPT ![p] = Gone]
  /\ UNCHANGED <<conf, live, saved, config, lock, faults>>

-----------------------------------------------------------------------------
(* cmd_create_peer. *)

\* A client that has its config already is not made again.
CreateExisting(p) ==
  /\ At(p, "create", "begin")
  /\ config[proc[p].name] # NoBlock
  /\ Ends(p, "ok")
  /\ UNCHANGED <<conf, live, saved, config, faults>>

CreateLive_Again(p) ==
  LET n    == proc[p].name
      free == Addrs \ Used
  IN
  /\ At(p, "create", "begin")
  /\ \E a \in free :
       LET b == [name |-> n, addr |-> a] IN
       /\ \A x \in free : a <= x
       /\ AwgSet(b)
       /\ Takes(p, "save", b)
  /\ UNCHANGED <<conf, saved, config, lock, faults>>

\* A new one takes the first free address and is set live before any file.
CreateLive(p) ==
  LET n    == proc[p].name
      free == Addrs \ Used
  IN
  /\ At(p, "create", "begin")
  /\ config[n] = NoBlock
  /\ \E a \in free :
       LET b == [name |-> n, addr |-> a] IN
       /\ \A x \in free : a <= x
       /\ AwgSet(b)
       /\ Takes(p, "save", b)
  /\ UNCHANGED <<conf, saved, config, lock, faults>>

CreateFull(p) ==
  /\ At(p, "create", "begin")
  /\ config[proc[p].name] = NoBlock
  /\ Addrs \subseteq Used
  /\ Ends(p, "error")
  /\ UNCHANGED <<conf, live, saved, config, faults>>

CreateSave_KeepsOld(p) ==
  /\ At(p, "create", "save")
  /\ saved' = [saved EXCEPT ![proc[p].name] = IF @ = NoBlock THEN proc[p].block ELSE @]
  /\ Goes(p, "conf")
  /\ UNCHANGED <<conf, live, config, lock, faults>>

CreateSave(p) ==
  /\ At(p, "create", "save")
  /\ saved' = [saved EXCEPT ![proc[p].name] = proc[p].block]
  /\ Goes(p, "conf")
  /\ UNCHANGED <<conf, live, config, lock, faults>>

CreateConf(p) ==
  /\ At(p, "create", "conf")
  /\ conf' = Append(conf, proc[p].block)
  /\ Goes(p, "config")
  /\ UNCHANGED <<live, saved, config, lock, faults>>

CreateConfig(p) ==
  /\ At(p, "create", "config")
  /\ config' = [config EXCEPT ![proc[p].name] = proc[p].block]
  /\ Ends(p, "ok")
  /\ UNCHANGED <<conf, live, saved, faults>>

\* A write fails: the live peer is taken back, which may fail too; the files
\* written so far stay.
CreateUndone(p) ==
  /\ WriteFails /\ Fault
  /\ proc[p].pc \in {"save", "conf", "config"} /\ proc[p].cmd = "create"
  /\ AwgRemove(proc[p].block) \/ (AwgFails /\ UNCHANGED live)
  /\ Ends(p, "error")
  /\ UNCHANGED <<conf, saved, config>>

-----------------------------------------------------------------------------
(* cmd_disable_peer. *)

DisableNothing(p) ==
  /\ At(p, "disable", "begin")
  /\ ~InConf(proc[p].name)
  /\ Ends(p, "ok")
  /\ UNCHANGED <<conf, live, saved, config, faults>>

\* The block of a client that the script added is saved first.
DisableSave(p) ==
  LET n == proc[p].name IN
  /\ At(p, "disable", "begin")
  /\ InConf(n)
  /\ saved' = [saved EXCEPT ![n] = IF @ = NoBlock THEN FindPeer(n) ELSE @]
  /\ Takes(p, "cut", FindPeer(n))
  /\ UNCHANGED <<conf, live, config, lock, faults>>

\* without_peer: awg1.conf keeps the blocks of the others.
Cut(p) ==
  /\ proc[p].pc = "cut"
  /\ \E at \in InOrder(DOMAIN conf \ Named(proc[p].name)) :
       conf' = [k \in DOMAIN at |-> conf[at[k]]]
  /\ Goes(p, "awg")
  /\ UNCHANGED <<live, saved, config, lock, faults>>

DisableLive_FileOnly(p) ==
  /\ At(p, "disable", "awg")
  /\ Ends(p, "ok")
  /\ UNCHANGED <<conf, live, saved, config, faults>>

DisableLive(p) ==
  /\ At(p, "disable", "awg")
  /\ AwgRemove(proc[p].block)
  /\ Ends(p, "ok")
  /\ UNCHANGED <<conf, saved, config, faults>>

-----------------------------------------------------------------------------
(* cmd_enable_peer. *)

EnablePresent_FileOnly(p) ==
  /\ At(p, "enable", "begin")
  /\ InConf(proc[p].name)
  /\ Ends(p, "ok")
  /\ UNCHANGED <<conf, live, saved, config, faults>>

EnablePresent(p) ==
  /\ At(p, "enable", "begin")
  /\ InConf(proc[p].name)
  /\ Takes(p, "awg", FindPeer(proc[p].name))
  /\ UNCHANGED <<conf, live, saved, config, lock, faults>>

Restorable_Taken(n) == saved[n] # NoBlock

Restorable_Missing(n) == saved[n] = NoBlock \/ saved[n].addr \notin ConfAddrs

\* The saved block is put back, unless another client has its address by now.
Restorable(n) == saved[n] # NoBlock /\ saved[n].addr \notin ConfAddrs

EnableConf(p) ==
  LET n == proc[p].name IN
  /\ At(p, "enable", "begin")
  /\ ~InConf(n)
  /\ Restorable(n)
  /\ conf' = Append(conf, saved[n])
  /\ Takes(p, "awg", saved[n])
  /\ UNCHANGED <<live, saved, config, lock, faults>>

EnableRefused(p) ==
  LET n == proc[p].name IN
  /\ At(p, "enable", "begin")
  /\ ~InConf(n)
  /\ ~Restorable(n)
  /\ Ends(p, "error")
  /\ UNCHANGED <<conf, live, saved, config, faults>>

EnableLive(p) ==
  /\ At(p, "enable", "awg")
  /\ AwgSet(proc[p].block)
  /\ Ends(p, "ok")
  /\ UNCHANGED <<conf, saved, config, faults>>

-----------------------------------------------------------------------------
(* cmd_remove_peer. *)

\* The key to take off the interface comes from awg1.conf or else from .peer.
RemoveBegin(p) ==
  LET n == proc[p].name IN
  /\ At(p, "remove", "begin")
  /\ \/ InConf(n) /\ Takes(p, "cut", FindPeer(n))
     \/ ~InConf(n) /\ saved[n] # NoBlock /\ Takes(p, "awg", saved[n])
     \/ ~InConf(n) /\ saved[n] = NoBlock /\ Goes(p, "unlink")
  /\ UNCHANGED <<conf, live, saved, config, lock, faults>>

RemoveLive(p) ==
  /\ At(p, "remove", "awg")
  /\ AwgRemove(proc[p].block)
  /\ Goes(p, "unlink")
  /\ UNCHANGED <<conf, saved, config, lock, faults>>

RemoveConfig(p) ==
  /\ At(p, "remove", "unlink")
  /\ config' = [config EXCEPT ![proc[p].name] = NoBlock]
  /\ Goes(p, "unlink_peer")
  /\ UNCHANGED <<conf, live, saved, lock, faults>>

RemoveSaved(p) ==
  /\ At(p, "remove", "unlink_peer")
  /\ saved' = [saved EXCEPT ![proc[p].name] = NoBlock]
  /\ Ends(p, "ok")
  /\ UNCHANGED <<conf, live, config, faults>>

-----------------------------------------------------------------------------
(* Faults, and what happens to the server besides. *)

\* awg fails, when it is asked to set or remove a peer.
AwgError(p) ==
  /\ AwgFails /\ Fault
  /\ \/ proc[p].pc = "awg"
     \/ At(p, "create", "begin") /\ config[proc[p].name] = NoBlock
  /\ Ends(p, "error")
  /\ UNCHANGED <<conf, live, saved, config>>

Kill(p) ==
  /\ Killed /\ Fault
  /\ proc[p].pc # "gone"
  /\ proc' = [proc EXCEPT ![p] = Gone]
  /\ lock' = IF lock = p THEN NoProc ELSE lock
  /\ UNCHANGED <<conf, live, saved, config>>

\* awg-quick reads awg1.conf when the host boots.
Reboot ==
  /\ \A p \in Procs : proc[p] = Gone
  /\ live' = Blocks
  /\ UNCHANGED <<conf, saved, config, proc, lock, faults>>

\* awg-add-client.sh, which looks for addresses in awg1.conf alone and makes no
\* .peer file. The operator runs it with no vpnctl at work, for a label that has
\* no file left.
ScriptAdd(n, a) ==
  /\ n \in ScriptNames
  /\ lock = NoProc
  /\ config[n] = NoBlock /\ saved[n] = NoBlock /\ ~InConf(n)
  /\ a \notin ConfAddrs
  /\ LET b == [name |-> n, addr |-> a] IN
       /\ conf' = Append(conf, b)
       /\ config' = [config EXCEPT ![n] = b]
       /\ AwgSet(b)
  /\ UNCHANGED <<saved, proc, lock, faults>>

CreatePeer(p)  == \/ CreateExisting(p) \/ CreateLive(p) \/ CreateFull(p) \/ CreateSave(p)
              \/ CreateConf(p) \/ CreateConfig(p) \/ CreateUndone(p)
DisablePeer(p) == DisableNothing(p) \/ DisableSave(p) \/ DisableLive(p)
EnablePeer(p)  == EnablePresent(p) \/ EnableConf(p) \/ EnableRefused(p) \/ EnableLive(p)
RemovePeer(p)  == RemoveBegin(p) \/ RemoveLive(p) \/ RemoveConfig(p) \/ RemoveSaved(p)

Next ==
  \/ \E p \in Procs :
       \/ \E cmd \in Commands, n \in Names : Request(p, cmd, n)
       \/ Acquire(p) \/ Respond(p) \/ Cut(p)
       \/ CreatePeer(p) \/ DisablePeer(p) \/ EnablePeer(p) \/ RemovePeer(p)
       \/ AwgError(p) \/ Kill(p)
  \/ Reboot
  \/ \E n \in Names, a \in Addrs : ScriptAdd(n, a)

Spec == Init /\ [][Next]_vars

-----------------------------------------------------------------------------
(* Properties. *)

TypeOK ==
  /\ conf \in Seq(Block)
  /\ live \subseteq Block
  /\ saved \in [Names -> Block \union {NoBlock}]
  /\ config \in [Names -> Block \union {NoBlock}]
  /\ lock \in Procs \union {NoProc}
  /\ \A p \in Procs : proc[p] # Gone =>
       /\ proc[p].cmd \in Commands
       /\ proc[p].name \in Names
       /\ proc[p].block \in Block \union {NoBlock}

\* No two clients of awg1.conf share an address, whatever fails half way, although
\* the script hands out the addresses of disabled clients.
AddressesApart ==
  \A i, k \in 1..Len(conf) : i # k => conf[i].addr # conf[k].addr

\* The config a customer holds is the one the server lets in when the client is on,
\* and the one it would let in again: no fault leaves them with different keys.
ConfigWorks ==
  \A n \in Names : config[n] # NoBlock =>
    \/ config[n] \in Blocks
    \/ ~InConf(n) /\ saved[n] \in {config[n], NoBlock}

\* The peers of a client in awg1.conf.
PeersOf(n) == {b \in Blocks : b.name = n}

\* A client's calls, repeated and overlapping, make one peer, and every further one
\* takes a fault of its own: a create that stops between the [Peer] block and the config
\* leaves a block that the next create does not look for.
OnePeerEach == \A n \in Names : Cardinality(PeersOf(n)) <= 1 + faults

\* "A retried job must not create a second peer for the same subscription": for that
\* reason not so.
NoSecondPeer == \A n \in Names : Cardinality(PeersOf(n)) <= 1

\* With no call in progress the interface is what awg1.conf says, so that a reboot
\* changes nothing for anybody.
LiveIsConf ==
  faults = 0 /\ lock = NoProc => live = Blocks

Answers(p, cmd) == proc[p].pc # "ok" /\ proc'[p].pc = "ok" /\ proc[p].cmd = cmd

\* A call that ends well has done what it says. Disabling or removing a client
\* "removes the peer from awg1.conf and the live interface" ...
SwitchesOff ==
  \A p \in Procs : Answers(p, "disable") \/ Answers(p, "remove") =>
    \A b \in live' \union Blocks' : b.name # proc[p].name

OffIsOff == [][SwitchesOff]_vars

\* ... at least as long as there was no fault ...
OffWithoutFault == [][faults = 0 => SwitchesOff]_vars

\* ... and enabling one puts it back in both, with the keys of its config.
OnIsOn ==
  [][\A p \in Procs : Answers(p, "enable") =>
       \E b \in live' \intersect Blocks' : b.name = proc[p].name]_vars

\* The server seen from the bot: a call acts at the moment awg1.conf is written, or
\* the client's config deleted.
Phase(p) ==
  CASE proc[p].pc = "gone"  -> "idle"
    [] proc[p].pc = "error" -> "failed"
    [] proc[p].pc \in {"ok", "config", "unlink_peer"} -> "done"
    [] proc[p].pc = "awg" /\ proc[p].cmd \in {"disable", "enable"} -> "done"
    [] OTHER -> "asked"

ServerPeer == [n \in Names |-> IF InConf(n) THEN "on"
                              ELSE IF config[n] # NoBlock THEN "off" ELSE "none"]

ServerCall == [p \in Procs |-> IF proc[p] = Gone THEN [phase |-> "idle"]
                              ELSE [phase |-> Phase(p), cmd |-> proc[p].cmd, name |-> proc[p].name]]

Registry == INSTANCE PeerServer WITH Calls <- Procs, peer <- ServerPeer, call <- ServerCall

\* With the lock, the order of the writes and no fault so far, vpnctl is the peer
\* registry the bot takes it for.
RefinesPeerServer ==
  Registry!Init /\ [][faults' = 0 => [Registry!Next]_<<ServerPeer, ServerCall>>]_vars
=============================================================================
