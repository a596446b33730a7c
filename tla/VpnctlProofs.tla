----------------------------- MODULE VpnctlProofs -----------------------------
(***************************************************************************)
(* Vpnctl for any clients, addresses and processes, any faults and any     *)
(* number of them: the invariants that hold whatever fails, those that     *)
(* hold until the first fault, and the peer registry that vpnctl amounts to*)
(* until then (PeerServer).                                                *)
(***************************************************************************)
EXTENDS Vpnctl, SequenceTheorems, FiniteSetTheorems, WellFoundedInduction, TLAPS

-----------------------------------------------------------------------------
(* awg1.conf as a set of blocks. *)

\* Every nonempty set of places has a first.
LEMMA FirstPlace ==
  ASSUME NEW T, T \subseteq Nat, T # {}
  PROVE  \E x \in T : \A y \in T : x <= y
<1> DEFINE Less == OpToRel(<, Nat)
<1>1. IsWellFoundedOn(Less, Nat)
  BY NatLessThanWellFounded
<1>2. \A x, y \in Nat : y < x => <<y, x>> \in Less
  BY DEF OpToRel
<1> HIDE DEF Less
<1>3. PICK x \in T : \A y \in T : ~ (<<y, x>> \in Less)
  BY <1>1, WFMin
<1>4. \A y \in T : y \in Nat /\ x \in Nat /\ ~(y < x)
  BY <1>2, <1>3
<1>5. \A y \in T : x <= y
  BY ONLY <1>4
<1> QED
  BY <1>5

\* A client is in the file when a block has its name.
LEMMA InConfIs ==
  \A n : /\ InConf(n)  <=> \E b \in Blocks  : b.name = n
         /\ InConf(n)' <=> \E b \in Blocks' : b.name = n
BY DEF InConf, Named, Blocks

\* find_peer finds a block of that name.
LEMMA FindPeerIs ==
  ASSUME conf \in Seq(Block), NEW n, InConf(n)
  PROVE  FindPeer(n) \in Blocks /\ FindPeer(n).name = n
<1>1. Named(n) \subseteq Nat /\ Named(n) # {}
  BY DEF Named, InConf
<1>2. PICK i \in Named(n) : \A k \in Named(n) : i <= k
  BY <1>1, FirstPlace
<1> DEFINE first == CHOOSE x \in Named(n) : \A k \in Named(n) : x <= k
<1>3. first \in Named(n)
  BY <1>2
<1> HIDE DEF first
<1> QED
  BY <1>3 DEF FindPeer, Named, Blocks, first

\* The blocks of the file have their type.
LEMMA BlocksAre ==
  ASSUME conf \in Seq(Block)
  PROVE  Blocks \subseteq Block
BY DEF Blocks

\* Two blocks with the same address are the same block.
LEMMA BlocksApart ==
  ASSUME conf \in Seq(Block), AddressesApart, NEW b \in Blocks, NEW c \in Blocks, b.addr = c.addr
  PROVE  b = c
<1>1. PICK i \in 1 .. Len(conf) : b = conf[i]
  BY DEF Blocks
<1>2. PICK k \in 1 .. Len(conf) : c = conf[k]
  BY DEF Blocks
<1> QED
  BY <1>1, <1>2 DEF AddressesApart

\* A block is added at the end of the file.
LEMMA AppendConf ==
  ASSUME conf \in Seq(Block), NEW b \in Block, conf' = Append(conf, b)
  PROVE  /\ conf' \in Seq(Block)
         /\ Blocks' = Blocks \union {b}
         /\ AddressesApart /\ b.addr \notin ConfAddrs => AddressesApart'
<1>1. /\ conf' \in Seq(Block) /\ Len(conf') = Len(conf) + 1
      /\ \A i \in 1 .. Len(conf) : conf'[i] = conf[i]
      /\ conf'[Len(conf) + 1] = b
  BY AppendProperties
<1>2. Len(conf) \in Nat /\ DOMAIN conf = 1 .. Len(conf) /\ DOMAIN conf' = 1 .. Len(conf) + 1
  BY <1>1
<1>3. Blocks' = Blocks \union {b}
  <2>1. ASSUME NEW x \in Blocks' PROVE x \in Blocks \union {b}
    BY <1>1, <1>2 DEF Blocks
  <2>2. ASSUME NEW x \in Blocks PROVE x \in Blocks'
    BY <1>1, <1>2 DEF Blocks
  <2>3. b \in Blocks'
    BY <1>1, <1>2 DEF Blocks
  <2> QED
    BY <2>1, <2>2, <2>3
<1>4. ASSUME AddressesApart, b.addr \notin ConfAddrs PROVE AddressesApart'
  <2>1. \A i \in 1 .. Len(conf) : conf[i].addr # b.addr
    BY <1>2, <1>4 DEF ConfAddrs, Blocks
  <2> QED
    BY <1>1, <1>2, <1>4, <2>1 DEF AddressesApart
<1> QED
  BY <1>1, <1>3, <1>4

\* without_peer takes exactly the blocks of that name out of the file.
LEMMA CutConf ==
  ASSUME conf \in Seq(Block), NEW n,
         \E at \in InOrder(DOMAIN conf \ Named(n)) : conf' = [k \in DOMAIN at |-> conf[at[k]]]
  PROVE  /\ conf' \in Seq(Block)
         /\ Blocks' = {b \in Blocks : b.name # n}
         /\ AddressesApart => AddressesApart'
<1> DEFINE S == DOMAIN conf \ Named(n)
           m == Cardinality(S)
<1>1. m \in Nat
  <2>1. S \subseteq 1 .. Len(conf) /\ Len(conf) \in Nat
    OBVIOUS
  <2>2. IsFiniteSet(1 .. Len(conf))
    BY <2>1, FS_Interval
  <2>3. IsFiniteSet(S)
    BY <2>1, <2>2, FS_Subset
  <2> QED
    BY <2>3, FS_CardinalityType
<1>2. PICK at \in [1 .. m -> S] :
        /\ \A i, k \in 1 .. m : i < k => at[i] < at[k]
        /\ \A x \in S : \E i \in 1 .. m : at[i] = x
        /\ conf' = [k \in 1 .. m |-> conf[at[k]]]
  BY DEF InOrder
<1>3. S \subseteq 1 .. Len(conf) /\ Len(conf) \in Nat
  OBVIOUS
<1>4. \A i \in S : conf[i].name # n /\ conf[i] \in Block
  BY DEF Named
<1>5. \A i \in DOMAIN conf : conf[i].name # n => i \in S
  BY DEF Named
<1> HIDE DEF S, m
<1>6. conf' \in Seq(Block)
  <2>1. conf' \in [1 .. m -> Block]
    BY <1>2, <1>4
  <2> QED
    BY <1>1, <2>1
<1>7. Len(conf') = m /\ DOMAIN conf' = 1 .. m
  BY <1>1, <1>2, <1>6
<1>8. Blocks' = {b \in Blocks : b.name # n}
  <2>1. ASSUME NEW b \in Blocks' PROVE b \in Blocks /\ b.name # n
    <3>1. PICK k \in 1 .. m : b = conf[at[k]]
      BY <1>2, <1>7 DEF Blocks
    <3> QED
      BY <1>2, <1>3, <1>4, <3>1 DEF Blocks
  <2>2. ASSUME NEW b \in Blocks, b.name # n PROVE b \in Blocks'
    <3>1. PICK i \in DOMAIN conf : b = conf[i]
      BY DEF Blocks
    <3>2. PICK k \in 1 .. m : at[k] = i
      BY <1>2, <1>5, <2>2, <3>1
    <3> QED
      BY <1>2, <1>7, <3>1, <3>2 DEF Blocks
  <2> QED
    BY <2>1, <2>2
<1>9. ASSUME AddressesApart PROVE AddressesApart'
  <2> SUFFICES ASSUME NEW i \in 1 .. m, NEW k \in 1 .. m, i # k
               PROVE  conf'[i].addr # conf'[k].addr
    BY <1>7 DEF AddressesApart
  <2>1. at[i] # at[k]
    <3>1. at[i] \in Nat /\ at[k] \in Nat
      <4>1. at[i] \in S /\ at[k] \in S
        OBVIOUS
      <4>2. S \subseteq Nat
        BY ONLY <1>3
      <4> QED
        BY ONLY <4>1, <4>2
    <3>2. i < k \/ k < i
      BY <1>1
    <3>3. at[i] < at[k] \/ at[k] < at[i]
      BY <1>2, <3>2
    <3> QED
      BY ONLY <3>1, <3>3
  <2>2. at[i] \in 1 .. Len(conf) /\ at[k] \in 1 .. Len(conf)
    BY <1>2, <1>3
  <2> QED
    BY <1>2, <1>9, <2>1, <2>2 DEF AddressesApart
<1> QED
  BY <1>6, <1>8, <1>9
-----------------------------------------------------------------------------
(* The types. *)

Steps   == {"wait", "begin", "save", "conf", "config", "cut", "awg", "unlink", "unlink_peer", "ok", "error"}
Working == {"begin", "save", "conf", "config", "cut", "awg", "unlink", "unlink_peer"}

\* A process, with what its step says of its command and its block.
CallOK(r) ==
  \/ r = Gone
  \/ /\ r \in [pc : Steps, cmd : Commands, name : Names, block : Block \union {NoBlock}]
     /\ r.pc \in {"save", "conf", "config"} => r.cmd = "create"
     /\ r.pc = "cut" => r.cmd \in {"disable", "remove"}
     /\ r.pc = "awg" => r.cmd \in {"disable", "enable", "remove"}
     /\ r.pc \in {"unlink", "unlink_peer"} => r.cmd = "remove"
     /\ r.pc \in {"save", "conf", "config", "cut", "awg"} => r.block \in Block /\ r.block.name = r.name
     /\ r.cmd = "create" => r.name \notin ScriptNames

FilesTyped ==
  /\ conf \in Seq(Block)
  /\ live \subseteq Block
  /\ saved \in [Names -> Block \union {NoBlock}]
  /\ config \in [Names -> Block \union {NoBlock}]
  /\ \A n \in Names : saved[n] # NoBlock => saved[n].name = n
  /\ lock \in Procs \union {NoProc}
  /\ faults \in Nat

TypeInv ==
  /\ FilesTyped
  /\ proc = [p \in Procs |-> proc[p]]
  /\ \A p \in Procs : CallOK(proc[p])

\* A process at work, at another step and with another block.
Call(p, pc, b) == [pc |-> pc, cmd |-> proc[p].cmd, name |-> proc[p].name, block |-> b]

\* A process that is there has a command, a client and a step.
LEMMA Asked ==
  ASSUME TypeInv, NEW p \in Procs, proc[p].pc # "gone"
  PROVE  /\ proc[p] \in [pc : Steps, cmd : Commands, name : Names, block : Block \union {NoBlock}]
         /\ proc[p] # Gone
<1>1. Gone.pc = "gone"
  BY DEF Gone
<1> QED
  BY <1>1 DEF TypeInv, CallOK

\* One step of a process, the others stay where they are.
LEMMA Turn ==
  ASSUME TypeInv, NEW p \in Procs, proc[p].pc # "gone", NEW pc, NEW b,
         Takes(p, pc, b) \/ (Goes(p, pc) /\ b = proc[p].block)
  PROVE  /\ proc' = [proc EXCEPT ![p] = Call(p, pc, b)]
         /\ proc'[p] = Call(p, pc, b)
         /\ \A q \in Procs : q # p => proc'[q] = proc[q]
<1>1. proc[p] \in [pc : Steps, cmd : Commands, name : Names, block : Block \union {NoBlock}]
  BY Asked
<1>2. proc = [q \in Procs |-> proc[q]]
  BY DEF TypeInv
<1>3. [proc[p] EXCEPT !.pc = pc] = [pc |-> pc, cmd |-> proc[p].cmd, name |-> proc[p].name, block |-> proc[p].block]
  BY <1>1
<1>4. [[proc[p] EXCEPT !.pc = pc] EXCEPT !.block = b] = Call(p, pc, b)
  <2> DEFINE x == [proc[p] EXCEPT !.pc = pc]
  <2>1. x \in [pc : {pc}, cmd : Commands, name : Names, block : Block \union {NoBlock}]
    BY <1>1
  <2>2. x.cmd = proc[p].cmd /\ x.name = proc[p].name
    BY <1>1
  <2> HIDE DEF x
  <2>3. [x EXCEPT !.block = b] = [pc |-> x.pc, cmd |-> x.cmd, name |-> x.name, block |-> b]
    BY <2>1
  <2>4. x.pc = pc
    BY <2>1
  <2> QED
    BY <2>2, <2>3, <2>4 DEF Call, x
<1>5. proc' = [proc EXCEPT ![p] = Call(p, pc, b)]
  <2>1. CASE Takes(p, pc, b)
    <3>1. [proc EXCEPT ![p].pc = pc] = [proc EXCEPT ![p] = [proc[p] EXCEPT !.pc = pc]]
      BY <1>2
    <3>2. proc' = [[proc EXCEPT ![p] = [proc[p] EXCEPT !.pc = pc]] EXCEPT ![p].block = b]
      BY <2>1, <3>1 DEF Takes
    <3> QED
      BY <1>2, <1>4, <3>2
  <2>2. CASE Goes(p, pc) /\ b = proc[p].block
    BY <1>2, <1>3, <2>2 DEF Goes, Call
  <2> QED
    BY <2>1, <2>2
<1> QED
  BY <1>2, <1>5

\* The types after a step of one process.
LEMMA OneCall ==
  ASSUME TypeInv, NEW p \in Procs, NEW r, CallOK(r), proc' = [proc EXCEPT ![p] = r], FilesTyped'
  PROVE  TypeInv'
<1>1. proc = [q \in Procs |-> proc[q]]
  BY DEF TypeInv
<1>2. proc' = [q \in Procs |-> proc'[q]] /\ proc'[p] = r /\ \A q \in Procs : q # p => proc'[q] = proc[q]
  BY <1>1
<1>3. \A q \in Procs : CallOK(proc'[q])
  BY <1>2 DEF TypeInv
<1> QED
  BY <1>2, <1>3 DEF TypeInv, CallOK, Gone

\* The types after a process at work took a step.
LEMMA OneTurn ==
  ASSUME TypeInv, NEW p \in Procs, proc[p].pc # "gone", NEW pc \in Steps, NEW b,
         Takes(p, pc, b) \/ (Goes(p, pc) /\ b = proc[p].block),
         CallOK(Call(p, pc, b)), FilesTyped'
  PROVE  TypeInv'
BY Turn, OneCall

\* A process that is on the way to its answer, or has not begun.
LEMMA RestingOK ==
  ASSUME TypeInv, NEW p \in Procs, proc[p].pc # "gone", NEW pc \in {"wait", "begin", "ok", "error"}
  PROVE  CallOK(Call(p, pc, proc[p].block))
<1>1. proc[p] \in [pc : Steps, cmd : Commands, name : Names, block : Block \union {NoBlock}]
  BY Asked
<1>2. proc[p].cmd = "create" => proc[p].name \notin ScriptNames
  BY Asked DEF TypeInv, CallOK
<1>3. Call(p, pc, proc[p].block) \in [pc : Steps, cmd : Commands, name : Names, block : Block \union {NoBlock}]
  BY <1>1 DEF Call, Steps
<1> QED
  BY <1>1, <1>2, <1>3 DEF CallOK, Call

\* There are no files at first and no process.
LEMMA TypeInit == Init => TypeInv
<1> SUFFICES ASSUME Init PROVE TypeInv
  OBVIOUS
<1>1. conf \in Seq(Block)
  BY DEF Init
<1>2. \A p \in Procs : CallOK(proc[p])
  BY DEF Init, CallOK
<1>3. FilesTyped
  BY <1>1, VpnctlAssumption DEF Init, FilesTyped
<1> QED
  BY <1>2, <1>3 DEF Init, TypeInv

\* A step in which the process goes on towards an answer and no file is written.
LEMMA RestsTyped ==
  ASSUME TypeInv, NEW p \in Procs, proc[p].pc # "gone",
         NEW pc \in {"wait", "begin", "ok", "error"}, Goes(p, pc),
         UNCHANGED <<conf, saved, config>>, live' \subseteq Block, lock' \in Procs \union {NoProc}, faults' \in Nat
  PROVE  TypeInv'
<1>1. FilesTyped'
  BY DEF TypeInv, FilesTyped, Block
<1> QED
  BY <1>1, RestingOK, OneTurn DEF Steps

\* The steps of cmd_create_peer.
LEMMA CreateTyped ==
  ASSUME TypeInv, NEW p \in Procs, CreatePeer(p)
  PROVE  TypeInv'
<1>0. proc[p].pc # "gone" /\ FilesTyped
  BY DEF CreatePeer, CreateExisting, CreateLive, CreateFull, CreateSave, CreateConf, CreateConfig, CreateUndone, At, TypeInv
<1>1. proc[p] \in [pc : Steps, cmd : Commands, name : Names, block : Block \union {NoBlock}] /\ CallOK(proc[p])
      /\ proc[p] # Gone
  BY <1>0, Asked DEF TypeInv
<1>2. CASE CreateExisting(p) \/ CreateFull(p)
  BY <1>0, <1>2, RestsTyped DEF CreateExisting, CreateFull, Ends, FilesTyped
<1>3. CASE CreateLive(p)
  <2>1. PICK a \in Addrs : LET b == [name |-> proc[p].name, addr |-> a] IN AwgSet(b) /\ Takes(p, "save", b)
    BY <1>3 DEF CreateLive
  <2> DEFINE b == [name |-> proc[p].name, addr |-> a]
  <2>2. b \in Block /\ b.name = proc[p].name
    BY <1>1 DEF Block
  <2>3. AwgSet(b) /\ Takes(p, "save", b) /\ proc[p].cmd = "create"
    BY <1>3, <2>1 DEF CreateLive, At
  <2> HIDE DEF b
  <2>4. FilesTyped'
    BY <1>0, <1>3, <2>2, <2>3 DEF CreateLive, FilesTyped, AwgSet, Block
  <2>5. CallOK(Call(p, "save", b))
    BY <1>1, <2>2, <2>3 DEF CallOK, Call, Steps
  <2> QED
    BY <1>0, <2>3, <2>4, <2>5, OneTurn DEF Steps
<1>4. CASE CreateSave(p) \/ CreateConf(p) \/ CreateConfig(p)
  <2>1. PICK pc \in {"conf", "config", "ok"} : Goes(p, pc)
    BY <1>4 DEF CreateSave, CreateConf, CreateConfig, Ends
  <2>2. proc[p].cmd = "create" /\ proc[p].pc \in {"save", "conf", "config"}
    BY <1>4 DEF CreateSave, CreateConf, CreateConfig, At
  <2>3. proc[p].block \in Block /\ proc[p].block.name = proc[p].name /\ proc[p].name \notin ScriptNames
    BY <1>1, <2>2 DEF CallOK
  <2>4. CallOK(Call(p, pc, proc[p].block))
    BY <1>1, <2>1, <2>2, <2>3 DEF CallOK, Call, Steps
  <2>5. FilesTyped'
    <3>1. CASE CreateSave(p)
      BY <1>0, <1>1, <2>3, <3>1 DEF CreateSave, FilesTyped, Block
    <3>2. CASE CreateConf(p)
      BY <1>0, <2>3, <3>2, AppendConf DEF CreateConf, FilesTyped, Block
    <3>3. CASE CreateConfig(p)
      BY <1>0, <1>1, <2>3, <3>3 DEF CreateConfig, Ends, FilesTyped, Block
    <3> QED
      BY <1>4, <3>1, <3>2, <3>3
  <2> QED
    BY <1>0, <2>1, <2>4, <2>5, OneTurn DEF Steps
<1>5. CASE CreateUndone(p)
  BY <1>0, <1>5, RestsTyped DEF CreateUndone, Fault, AwgRemove, Ends, FilesTyped
<1> QED
  BY <1>2, <1>3, <1>4, <1>5 DEF CreatePeer

\* The steps of cmd_disable_peer, and the cut that cmd_remove_peer has too.
LEMMA DisableTyped ==
  ASSUME TypeInv, NEW p \in Procs, DisablePeer(p) \/ Cut(p)
  PROVE  TypeInv'
<1>0. proc[p].pc # "gone" /\ FilesTyped
  BY DEF DisablePeer, DisableNothing, DisableSave, Cut, DisableLive, At, TypeInv
<1>1. proc[p] \in [pc : Steps, cmd : Commands, name : Names, block : Block \union {NoBlock}] /\ CallOK(proc[p])
      /\ proc[p] # Gone
  BY <1>0, Asked DEF TypeInv
<1>2. CASE DisableNothing(p) \/ DisableLive(p)
  BY <1>0, <1>2, RestsTyped DEF DisableNothing, DisableLive, AwgRemove, Ends, FilesTyped
<1>3. CASE DisableSave(p)
  <2> DEFINE b == FindPeer(proc[p].name)
  <2>1. b \in Block /\ b.name = proc[p].name
    BY <1>0, <1>3, FindPeerIs, BlocksAre DEF DisableSave, FilesTyped
  <2>2. proc[p].cmd = "disable" /\ Takes(p, "cut", b)
    BY <1>3 DEF DisableSave, At
  <2>3. saved' = [saved EXCEPT ![proc[p].name] = IF @ = NoBlock THEN b ELSE @]
        /\ UNCHANGED <<conf, live, config, lock, faults>>
    BY <1>3 DEF DisableSave
  <2> HIDE DEF b
  <2>4. CallOK(Call(p, "cut", b))
    BY <1>1, <2>1, <2>2 DEF CallOK, Call, Steps
  <2>5. FilesTyped'
    BY <1>0, <1>1, <2>1, <2>3 DEF FilesTyped, Block
  <2> QED
    BY <1>0, <2>2, <2>4, <2>5, OneTurn DEF Steps
<1>4. CASE Cut(p)
  <2>1. proc[p].pc = "cut" /\ Goes(p, "awg") /\ UNCHANGED <<live, saved, config, lock, faults>>
    BY <1>4 DEF Cut
  <2>2. conf' \in Seq(Block)
    BY <1>0, <1>4, CutConf DEF Cut, FilesTyped
  <2>3. FilesTyped'
    BY <1>0, <2>1, <2>2 DEF FilesTyped, Block
  <2>4. CallOK(Call(p, "awg", proc[p].block))
    BY <1>1, <2>1 DEF CallOK, Call, Steps
  <2> QED
    BY <1>0, <2>1, <2>3, <2>4, OneTurn DEF Steps
<1> QED
  BY <1>2, <1>3, <1>4 DEF DisablePeer

\* The steps of cmd_enable_peer.
LEMMA EnableTyped ==
  ASSUME TypeInv, NEW p \in Procs, EnablePeer(p)
  PROVE  TypeInv'
<1>0. proc[p].pc # "gone" /\ FilesTyped /\ proc[p].cmd = "enable"
  BY DEF EnablePeer, EnablePresent, EnableConf, EnableRefused, EnableLive, At, TypeInv
<1>1. proc[p] \in [pc : Steps, cmd : Commands, name : Names, block : Block \union {NoBlock}] /\ CallOK(proc[p])
      /\ proc[p] # Gone
  BY <1>0, Asked DEF TypeInv
<1>2. CASE EnableRefused(p)
  BY <1>0, <1>2, RestsTyped DEF EnableRefused, Ends, FilesTyped
<1>3. CASE EnableLive(p)
  <2>1. proc[p].block \in Block
    BY <1>1, <1>3 DEF EnableLive, At, CallOK
  <2> QED
    BY <1>0, <1>3, <2>1, RestsTyped DEF EnableLive, AwgSet, Ends, FilesTyped
<1>4. ASSUME NEW b \in Block, b.name = proc[p].name, Takes(p, "awg", b), FilesTyped' PROVE TypeInv'
  <2>1. CallOK(Call(p, "awg", b))
    BY <1>0, <1>1, <1>4 DEF CallOK, Call, Steps
  <2> QED
    BY <1>0, <1>4, <2>1, OneTurn DEF Steps
<1>5. CASE EnablePresent(p)
  <2>1. FindPeer(proc[p].name) \in Block /\ FindPeer(proc[p].name).name = proc[p].name
    BY <1>0, <1>5, FindPeerIs, BlocksAre DEF EnablePresent, FilesTyped
  <2>2. FilesTyped'
    BY <1>0, <1>5 DEF EnablePresent, FilesTyped, Block
  <2> QED
    BY <1>4, <1>5, <2>1, <2>2 DEF EnablePresent
<1>6. CASE EnableConf(p)
  <2>1. saved[proc[p].name] \in Block /\ saved[proc[p].name].name = proc[p].name
    BY <1>0, <1>1, <1>6 DEF EnableConf, Restorable, FilesTyped
  <2>2. FilesTyped'
    BY <1>0, <1>6, <2>1, AppendConf DEF EnableConf, FilesTyped, Block
  <2> QED
    BY <1>4, <1>6, <2>1, <2>2 DEF EnableConf
<1> QED
  BY <1>2, <1>3, <1>5, <1>6 DEF EnablePeer

\* The steps of cmd_remove_peer.
LEMMA RemoveTyped ==
  ASSUME TypeInv, NEW p \in Procs, RemovePeer(p)
  PROVE  TypeInv'
<1>0. proc[p].pc # "gone" /\ FilesTyped /\ proc[p].cmd = "remove"
  BY DEF RemovePeer, RemoveBegin, RemoveLive, RemoveConfig, RemoveSaved, At, TypeInv
<1>1. proc[p] \in [pc : Steps, cmd : Commands, name : Names, block : Block \union {NoBlock}] /\ CallOK(proc[p])
      /\ proc[p] # Gone
  BY <1>0, Asked DEF TypeInv
<1>2. ASSUME NEW pc \in {"unlink", "unlink_peer", "ok"}, Goes(p, pc), FilesTyped' PROVE TypeInv'
  <2>1. CallOK(Call(p, pc, proc[p].block))
    BY <1>0, <1>1, <1>2 DEF CallOK, Call, Steps
  <2> QED
    BY <1>0, <1>2, <2>1, OneTurn DEF Steps
<1>3. ASSUME NEW b \in Block, b.name = proc[p].name, NEW pc \in {"cut", "awg"}, Takes(p, pc, b), FilesTyped'
      PROVE  TypeInv'
  <2>1. CallOK(Call(p, pc, b))
    BY <1>0, <1>1, <1>3 DEF CallOK, Call, Steps
  <2> QED
    BY <1>0, <1>3, <2>1, OneTurn DEF Steps
<1>4. CASE RemoveBegin(p)
  <2>1. FilesTyped'
    BY <1>0, <1>4 DEF RemoveBegin, FilesTyped, Block
  <2>2. CASE InConf(proc[p].name) /\ Takes(p, "cut", FindPeer(proc[p].name))
    BY <1>0, <1>3, <2>1, <2>2, FindPeerIs, BlocksAre DEF FilesTyped
  <2>3. CASE saved[proc[p].name] # NoBlock /\ Takes(p, "awg", saved[proc[p].name])
    BY <1>0, <1>1, <1>3, <2>1, <2>3 DEF FilesTyped
  <2>4. CASE Goes(p, "unlink")
    BY <1>2, <2>1, <2>4
  <2> QED
    BY <1>4, <2>2, <2>3, <2>4 DEF RemoveBegin
<1>5. CASE RemoveLive(p)
  BY <1>0, <1>2, <1>5 DEF RemoveLive, AwgRemove, FilesTyped, Block
<1>6. CASE RemoveConfig(p)
  BY <1>0, <1>1, <1>2, <1>6 DEF RemoveConfig, FilesTyped, Block
<1>7. CASE RemoveSaved(p)
  BY <1>0, <1>1, <1>2, <1>7 DEF RemoveSaved, Ends, FilesTyped, Block
<1> QED
  BY <1>4, <1>5, <1>6, <1>7 DEF RemovePeer

\* The steps of a process that are in no command, and the faults.
LEMMA ServeTyped ==
  ASSUME TypeInv, NEW p \in Procs,
         \/ \E cmd \in Commands, n \in Names : Request(p, cmd, n)
         \/ Acquire(p) \/ Respond(p) \/ AwgError(p) \/ Kill(p)
  PROVE  TypeInv'
<1>0. FilesTyped
  BY DEF TypeInv
<1>1. ASSUME NEW cmd \in Commands, NEW n \in Names, Request(p, cmd, n) PROVE TypeInv'
  <2> DEFINE r == [pc |-> "wait", cmd |-> cmd, name |-> n, block |-> NoBlock]
  <2>1. proc' = [proc EXCEPT ![p] = r]
    BY <1>1 DEF Request
  <2>2. r \in [pc : Steps, cmd : Commands, name : Names, block : Block \union {NoBlock}] /\ r.pc = "wait"
        /\ (r.cmd = "create" => r.name \notin ScriptNames)
    BY <1>1 DEF Request, Steps
  <2>3. FilesTyped'
    BY <1>0, <1>1 DEF Request, FilesTyped, Block
  <2> HIDE DEF r
  <2>4. CallOK(r)
    BY <2>2 DEF CallOK
  <2> QED
    BY <2>1, <2>3, <2>4, OneCall
<1>2. CASE Acquire(p)
  BY <1>0, <1>2, RestsTyped DEF Acquire, FilesTyped
<1>3. CASE AwgError(p)
  BY <1>0, <1>3, RestsTyped DEF AwgError, At, Fault, Ends, FilesTyped
<1>4. CASE Respond(p) \/ Kill(p)
  <2>1. FilesTyped'
    BY <1>0, <1>4 DEF Respond, Kill, Fault, FilesTyped, Block
  <2>2. proc' = [proc EXCEPT ![p] = Gone] /\ CallOK(Gone)
    BY <1>4 DEF Respond, Kill, CallOK
  <2> QED
    BY <2>1, <2>2, OneCall
<1> QED
  BY <1>1, <1>2, <1>3, <1>4

\* A boot of the host, and the operator's script.
LEMMA HostTyped ==
  ASSUME TypeInv, Reboot \/ \E n \in Names, a \in Addrs : ScriptAdd(n, a)
  PROVE  TypeInv'
<1>0. FilesTyped /\ proc' = proc
  BY DEF TypeInv, Reboot, ScriptAdd
<1>1. CASE Reboot
  <2>1. FilesTyped'
    BY <1>0, <1>1, BlocksAre DEF Reboot, FilesTyped, Block
  <2> QED
    BY <1>0, <2>1 DEF TypeInv, CallOK, Gone
<1>2. ASSUME NEW n \in Names, NEW a \in Addrs, ScriptAdd(n, a) PROVE TypeInv'
  <2> DEFINE b == [name |-> n, addr |-> a]
  <2>1. b \in Block
    BY DEF Block
  <2>2. conf' = Append(conf, b) /\ config' = [config EXCEPT ![n] = b] /\ AwgSet(b)
        /\ UNCHANGED <<saved, proc, lock, faults>>
    BY <1>2 DEF ScriptAdd
  <2> HIDE DEF b
  <2>3. FilesTyped'
    BY <1>0, <2>1, <2>2, AppendConf DEF AwgSet, FilesTyped, Block
  <2> QED
    BY <1>0, <2>3 DEF TypeInv, CallOK, Gone
<1> QED
  BY <1>1, <1>2

\* Every step keeps the types.
LEMMA TypeNext == TypeInv /\ [Next]_vars => TypeInv'
<1> SUFFICES ASSUME TypeInv, [Next]_vars PROVE TypeInv'
  OBVIOUS
<1>1. CASE UNCHANGED vars
  BY <1>1 DEF vars, TypeInv, FilesTyped, CallOK, Gone, Block
<1> QED
  BY <1>1, CreateTyped, DisableTyped, EnableTyped, RemoveTyped, ServeTyped, HostTyped DEF Next

\* The types that the runs check.
LEMMA TypeInvIsOK == TypeInv => TypeOK
<1> SUFFICES ASSUME TypeInv, NEW p \in Procs, proc[p] # Gone
             PROVE  proc[p].cmd \in Commands /\ proc[p].name \in Names /\ proc[p].block \in Block \union {NoBlock}
  BY DEF TypeInv, FilesTyped, TypeOK
<1> QED
  BY DEF TypeInv, CallOK

\* The files, the interface and the processes keep their types, whatever fails: no
\* command comes to a step where it has no block to write.
THEOREM VpnctlTypes == Spec => []TypeOK
BY TypeInit, TypeNext, TypeInvIsOK, PTL DEF Spec

-----------------------------------------------------------------------------
(* The lock: one process is at work. *)

Locked == \A p \in Procs : proc[p].pc \in Working => lock = p

\* The steps of a process at work.
Works(p) == CreatePeer(p) \/ DisablePeer(p) \/ Cut(p) \/ EnablePeer(p) \/ RemovePeer(p)

\* A process that takes a step of a command is at work, stays at work with the lock
\* or ends without it, and the others stay where they are.
LEMMA WorkStep ==
  ASSUME TypeInv, NEW p \in Procs, Works(p) \/ AwgError(p)
  PROVE  /\ proc[p].pc \in Working
         /\ \A q \in Procs : q # p => proc'[q] = proc[q]
         /\ proc'[p].name = proc[p].name /\ proc'[p].cmd = proc[p].cmd
         /\ \/ lock' = lock
            \/ lock' = NoProc /\ proc'[p].pc \in {"ok", "error"}
<1>1. proc[p].pc \in Working
  BY DEF Works, CreatePeer, CreateExisting, CreateLive, CreateFull, CreateSave, CreateConf, CreateConfig, CreateUndone,
         DisablePeer, DisableNothing, DisableSave, DisableLive, Cut, EnablePeer, EnablePresent, EnableConf,
         EnableRefused, EnableLive, RemovePeer, RemoveBegin, RemoveLive, RemoveConfig, RemoveSaved, AwgError, At, Working
<1>2. proc[p].pc # "gone"
  BY <1>1 DEF Working
<1>3. \E pc, b : Takes(p, pc, b) \/ (Goes(p, pc) /\ b = proc[p].block)
  <2>1. ASSUME \E pc : Goes(p, pc) PROVE \E pc, b : Takes(p, pc, b) \/ (Goes(p, pc) /\ b = proc[p].block)
    BY <2>1
  <2>2. CASE CreatePeer(p)
    BY <2>1, <2>2 DEF CreatePeer, CreateExisting, CreateLive, CreateFull, CreateSave, CreateConf, CreateConfig,
                      CreateUndone, Ends
  <2>3. CASE DisablePeer(p) \/ Cut(p)
    BY <2>1, <2>3 DEF DisablePeer, DisableNothing, DisableSave, DisableLive, Cut, Ends
  <2>4. CASE EnablePeer(p)
    BY <2>1, <2>4 DEF EnablePeer, EnablePresent, EnableConf, EnableRefused, EnableLive, Ends
  <2>5. CASE RemovePeer(p)
    BY <2>1, <2>5 DEF RemovePeer, RemoveBegin, RemoveLive, RemoveConfig, RemoveSaved, Ends
  <2>6. CASE AwgError(p)
    BY <2>1, <2>6 DEF AwgError, Ends
  <2> QED
    BY <2>2, <2>3, <2>4, <2>5, <2>6 DEF Works
<1>4. /\ \A q \in Procs : q # p => proc'[q] = proc[q]
      /\ proc'[p].name = proc[p].name /\ proc'[p].cmd = proc[p].cmd
  <2>1. PICK pc, b : Takes(p, pc, b) \/ (Goes(p, pc) /\ b = proc[p].block)
    BY <1>3
  <2>2. proc'[p] = Call(p, pc, b) /\ \A q \in Procs : q # p => proc'[q] = proc[q]
    BY <1>2, <2>1, Turn
  <2> QED
    BY <2>2 DEF Call
<1>5. ASSUME NEW result \in {"ok", "error"}, Ends(p, result) PROVE lock' = NoProc /\ proc'[p].pc \in {"ok", "error"}
  <2>1. Goes(p, result) /\ lock' = NoProc
    BY <1>5 DEF Ends
  <2>2. proc'[p] = Call(p, result, proc[p].block)
    BY <1>2, <2>1, Turn
  <2>3. proc'[p].pc = result
    BY <2>2 DEF Call
  <2> QED
    BY <2>1, <2>3
<1>6. lock' = lock \/ Ends(p, "ok") \/ Ends(p, "error")
  BY DEF Works, CreatePeer, CreateExisting, CreateLive, CreateFull, CreateSave, CreateConf, CreateConfig, CreateUndone,
         DisablePeer, DisableNothing, DisableSave, DisableLive, Cut, EnablePeer, EnablePresent, EnableConf,
         EnableRefused, EnableLive, RemovePeer, RemoveBegin, RemoveLive, RemoveConfig, RemoveSaved, AwgError
<1> QED
  BY <1>1, <1>4, <1>5, <1>6

\* Every step keeps the lock.
LEMMA LockNext == TypeInv /\ Locked /\ [Next]_vars => Locked'
<1> SUFFICES ASSUME TypeInv, Locked, [Next]_vars PROVE Locked'
  OBVIOUS
<1>0. proc = [p \in Procs |-> proc[p]] /\ NoProc \notin Procs /\ Gone.pc = "gone"
  BY VpnctlAssumption DEF TypeInv, Gone
<1>1. ASSUME NEW p \in Procs, Works(p) \/ AwgError(p) PROVE Locked'
  BY <1>0, <1>1, WorkStep DEF Locked, Working
<1>2. ASSUME NEW p \in Procs, NEW cmd \in Commands, NEW n \in Names, Request(p, cmd, n) PROVE Locked'
  <2>1. proc'[p].pc = "wait" /\ \A q \in Procs : q # p => proc'[q] = proc[q]
    BY <1>0, <1>2 DEF Request
  <2> QED
    BY <1>2, <2>1 DEF Request, Locked, Working
<1>3. ASSUME NEW p \in Procs, Acquire(p) PROVE Locked'
  <2>1. \A q \in Procs : q # p => proc'[q] = proc[q]
    BY <1>3, Turn DEF Acquire
  <2> QED
    BY <1>0, <1>3, <2>1 DEF Acquire, Locked
<1>4. ASSUME NEW p \in Procs, Respond(p) \/ Kill(p) PROVE Locked'
  <2>1. proc'[p] = Gone /\ \A q \in Procs : q # p => proc'[q] = proc[q]
    BY <1>0, <1>4 DEF Respond, Kill
  <2>2. \A q \in Procs : q # p /\ lock = q => lock' = q
    BY <1>4 DEF Respond, Kill
  <2> QED
    BY <1>0, <2>1, <2>2 DEF Locked, Working
<1>5. CASE UNCHANGED <<proc, lock>>
  BY <1>5 DEF Locked
<1> QED
  BY <1>1, <1>2, <1>3, <1>4, <1>5 DEF Next, Works, Reboot, ScriptAdd, vars

\* Who goes on keeps its command, its client and its block ...
LEMMA GoesIs ==
  ASSUME TypeInv, NEW p \in Procs, proc[p].pc # "gone", NEW pc, Goes(p, pc)
  PROVE  /\ proc'[p].pc = pc /\ proc'[p].cmd = proc[p].cmd
         /\ proc'[p].name = proc[p].name /\ proc'[p].block = proc[p].block
<1>1. proc'[p] = Call(p, pc, proc[p].block)
  BY Turn
<1> QED
  BY <1>1 DEF Call

\* ... or takes another block.
LEMMA TakesIs ==
  ASSUME TypeInv, NEW p \in Procs, proc[p].pc # "gone", NEW pc, NEW b, Takes(p, pc, b)
  PROVE  /\ proc'[p].pc = pc /\ proc'[p].cmd = proc[p].cmd
         /\ proc'[p].name = proc[p].name /\ proc'[p].block = b
<1>1. proc'[p] = Call(p, pc, b)
  BY Turn
<1> QED
  BY <1>1 DEF Call

\* No other process is at work after a step of one that is.
LEMMA OthersWait ==
  ASSUME TypeInv, Locked, NEW p \in Procs, Works(p) \/ AwgError(p), NEW q \in Procs, q # p
  PROVE  proc'[q].pc \notin Working
BY WorkStep DEF Locked

\* What the steps that write no file leave alone.
LEMMA SameConf ==
  ASSUME conf' = conf
  PROVE  /\ Blocks' = Blocks /\ ConfAddrs' = ConfAddrs
         /\ \A n : InConf(n)' <=> InConf(n)
         /\ AddressesApart => AddressesApart'
BY DEF Blocks, ConfAddrs, InConf, Named, AddressesApart

-----------------------------------------------------------------------------
(* The files, whatever fails. *)

\* What a command relies on between two of its writes.
HalfWay(r) ==
  /\ r.pc \in {"save", "conf", "config"} => config[r.name] = NoBlock
  /\ r.pc \in {"save", "conf"} => r.block.addr \notin ConfAddrs
  /\ r.pc \in {"conf", "config"} => saved[r.name] = r.block
  /\ r.pc \in {"config", "cut"} => r.block \in Blocks
  /\ r.pc = "awg" /\ r.cmd = "enable" => r.block \in Blocks
  /\ r.pc = "awg" /\ r.cmd # "enable" => ~InConf(r.name)
  /\ r.pc \in {"unlink", "unlink_peer"} => ~InConf(r.name)
  /\ r.pc = "unlink_peer" => config[r.name] = NoBlock

\* A client's files are of one key pair. The one that the script added has a single
\* block, that of its config, until a command saves it.
KeysAgree ==
  \A n \in Names :
    /\ config[n] # NoBlock => config[n].name = n
    /\ saved[n] # NoBlock /\ config[n] # NoBlock => saved[n] = config[n]
    /\ config[n] # NoBlock /\ InConf(n) => config[n] \in Blocks
    /\ saved[n] = NoBlock => \A b \in Blocks : b.name = n => config[n] = b

FilesInv == AddressesApart /\ KeysAgree /\ \A p \in Procs : HalfWay(proc[p])

\* A process that is not at work relies on nothing.
LEMMA RestsHalfWay ==
  ASSUME NEW q \in Procs, proc'[q].pc \notin Working
  PROVE  HalfWay(proc[q])'
BY DEF HalfWay, Working

\* There are no files at first.
LEMMA InitFiles == Init => FilesInv
<1> SUFFICES ASSUME Init PROVE FilesInv
  OBVIOUS
<1>1. Blocks = {} /\ \A n : ~InConf(n)
  BY DEF Init, Blocks, InConf, Named
<1>2. \A p \in Procs : HalfWay(proc[p])
  BY DEF Init, Gone, HalfWay
<1> QED
  BY <1>1, <1>2 DEF Init, FilesInv, KeysAgree, AddressesApart

\* A step that writes no file and ends a command, or begins nothing.
LEMMA RestingFiles ==
  ASSUME FilesInv, NEW p \in Procs, UNCHANGED <<conf, saved, config>>, HalfWay(proc[p])',
         \A q \in Procs : q # p => proc'[q].pc \notin Working \/ proc'[q] = proc[q]
  PROVE  FilesInv'
<1>1. \A q \in Procs : HalfWay(proc[q])'
  BY RestsHalfWay, SameConf DEF FilesInv, HalfWay
<1>2. KeysAgree'
  BY SameConf DEF FilesInv, KeysAgree
<1> QED
  BY <1>1, <1>2, SameConf DEF FilesInv

\* What a step of a command of p finds.
Finds(p) ==
  /\ proc[p] \in [pc : Steps, cmd : Commands, name : Names, block : Block \union {NoBlock}]
  /\ proc[p].pc # "gone"
  /\ proc[p].pc \in {"save", "conf", "config", "cut", "awg"} =>
       proc[p].block \in Block /\ proc[p].block.name = proc[p].name
  /\ HalfWay(proc[p])
  /\ NoBlock \notin Block /\ Blocks \subseteq Block /\ FilesTyped

LEMMA FindsIt ==
  ASSUME TypeInv, FilesInv, NEW p \in Procs, proc[p].pc # "gone"
  PROVE  Finds(p)
<1>1. proc[p] \in [pc : Steps, cmd : Commands, name : Names, block : Block \union {NoBlock}] /\ CallOK(proc[p])
      /\ proc[p] # Gone
  BY Asked DEF TypeInv
<1>2. proc[p].pc \in {"save", "conf", "config", "cut", "awg"} =>
       proc[p].block \in Block /\ proc[p].block.name = proc[p].name
  BY <1>1 DEF CallOK
<1> QED
  BY <1>1, <1>2, BlocksAre, VpnctlAssumption DEF Finds, FilesInv, TypeInv, FilesTyped, Block

\* The files after a step of a process at work: what is left to show is about the
\* process itself and the keys.
LEMMA OneWorks ==
  ASSUME TypeInv, Locked, FilesInv, NEW p \in Procs, Works(p) \/ AwgError(p),
         HalfWay(proc[p])', KeysAgree', AddressesApart'
  PROVE  FilesInv'
BY OthersWait, RestsHalfWay DEF FilesInv

\* A command that ends without writing a file.
LEMMA EndsFiles ==
  ASSUME TypeInv, Locked, FilesInv, NEW p \in Procs, Works(p) \/ AwgError(p), UNCHANGED <<conf, saved, config>>,
         NEW result \in {"ok", "error"}, Ends(p, result)
  PROVE  FilesInv'
<1>1. proc[p].pc # "gone" /\ Goes(p, result)
  BY WorkStep DEF Working, Ends
<1>2. proc'[p].pc = result
  BY <1>1, GoesIs
<1>3. HalfWay(proc[p])'
  BY <1>2, RestsHalfWay DEF Working
<1> QED
  BY <1>3, SameConf, OneWorks DEF FilesInv, KeysAgree

\* cmd_create_peer: the saved block is written over while nobody has the config, so
\* the config that is made last is of the same keys.
LEMMA CreateFiles ==
  ASSUME TypeInv, Locked, FilesInv, NEW p \in Procs, CreatePeer(p)
  PROVE  FilesInv'
<1>0. Works(p) /\ proc[p].pc # "gone"
  BY WorkStep DEF Works, Working
<1>1. Finds(p) /\ AddressesApart /\ KeysAgree
  BY <1>0, FindsIt DEF FilesInv
<1>2. CASE CreateExisting(p) \/ CreateFull(p) \/ CreateUndone(p)
  BY <1>0, <1>2, EndsFiles DEF CreateExisting, CreateFull, CreateUndone
<1>3. CASE CreateLive(p)
  <2>1. PICK a \in Addrs \ Used : Takes(p, "save", [name |-> proc[p].name, addr |-> a])
    BY <1>3 DEF CreateLive
  <2>2. /\ proc'[p].pc = "save" /\ proc'[p].name = proc[p].name
        /\ proc'[p].block = [name |-> proc[p].name, addr |-> a]
    BY <1>0, <2>1, TakesIs
  <2>3. config[proc[p].name] = NoBlock /\ UNCHANGED <<conf, saved, config>>
    BY <1>3 DEF CreateLive
  <2>4. a \notin ConfAddrs
    BY <2>1 DEF Used
  <2>5. HalfWay(proc[p])'
    BY <2>2, <2>3, <2>4, SameConf DEF HalfWay
  <2> QED
    BY <1>0, <1>1, <2>3, <2>5, SameConf, OneWorks DEF KeysAgree
<1>4. CASE CreateSave(p)
  <2>1. /\ proc[p].pc = "save" /\ Goes(p, "conf") /\ UNCHANGED <<conf, config>>
        /\ saved' = [saved EXCEPT ![proc[p].name] = proc[p].block]
    BY <1>4 DEF CreateSave, At
  <2>2. proc'[p].pc = "conf" /\ proc'[p].name = proc[p].name /\ proc'[p].block = proc[p].block
    BY <1>0, <2>1, GoesIs
  <2>3. config[proc[p].name] = NoBlock /\ proc[p].block.addr \notin ConfAddrs
        /\ saved'[proc[p].name] = proc[p].block /\ proc[p].block # NoBlock
        /\ \A n \in Names : n # proc[p].name => saved'[n] = saved[n]
    BY <1>1, <2>1 DEF Finds, HalfWay, FilesTyped
  <2>4. HalfWay(proc[p])'
    BY <2>1, <2>2, <2>3, SameConf DEF HalfWay
  <2>5. KeysAgree'
    BY <1>1, <2>1, <2>3, SameConf DEF KeysAgree
  <2> QED
    BY <1>0, <1>1, <2>1, <2>4, <2>5, SameConf, OneWorks
<1>5. CASE CreateConf(p)
  <2>1. proc[p].pc = "conf" /\ Goes(p, "config") /\ UNCHANGED <<saved, config>> /\ conf' = Append(conf, proc[p].block)
    BY <1>5 DEF CreateConf, At
  <2>2. proc'[p].pc = "config" /\ proc'[p].name = proc[p].name /\ proc'[p].block = proc[p].block
    BY <1>0, <2>1, GoesIs
  <2>3. config[proc[p].name] = NoBlock /\ proc[p].block.addr \notin ConfAddrs
        /\ saved[proc[p].name] = proc[p].block /\ proc[p].block \in Block /\ proc[p].block.name = proc[p].name
    BY <1>1, <2>1 DEF Finds, HalfWay
  <2>4. Blocks' = Blocks \union {proc[p].block} /\ AddressesApart'
    BY <1>1, <2>1, <2>3, AppendConf DEF Finds, FilesTyped
  <2>5. HalfWay(proc[p])'
    BY <2>1, <2>2, <2>3, <2>4 DEF HalfWay
  <2>6. KeysAgree'
    <3> SUFFICES ASSUME NEW n \in Names
                 PROVE  /\ config[n] # NoBlock => config[n].name = n
                        /\ saved[n] # NoBlock /\ config[n] # NoBlock => saved[n] = config[n]
                        /\ config[n] # NoBlock /\ InConf(n)' => config[n] \in Blocks'
                        /\ saved[n] = NoBlock => \A b \in Blocks' : b.name = n => config[n] = b
      BY <2>1 DEF KeysAgree
    <3>1. CASE n = proc[p].name
      BY <1>1, <2>3, <3>1 DEF KeysAgree, Finds
    <3>2. CASE n # proc[p].name
      BY <1>1, <2>3, <2>4, <3>2, InConfIs DEF KeysAgree
    <3> QED
      BY <3>1, <3>2
  <2> QED
    BY <1>0, <2>4, <2>5, <2>6, OneWorks
<1>6. CASE CreateConfig(p)
  <2>1. /\ proc[p].pc = "config" /\ Goes(p, "ok") /\ UNCHANGED <<conf, saved>>
        /\ config' = [config EXCEPT ![proc[p].name] = proc[p].block]
    BY <1>6 DEF CreateConfig, At, Ends
  <2>2. proc'[p].pc = "ok"
    BY <1>0, <2>1, GoesIs
  <2>3. /\ saved[proc[p].name] = proc[p].block /\ proc[p].block \in Blocks
        /\ proc[p].block.name = proc[p].name /\ proc[p].block # NoBlock
        /\ config'[proc[p].name] = proc[p].block
        /\ \A n \in Names : n # proc[p].name => config'[n] = config[n]
    BY <1>1, <2>1 DEF Finds, HalfWay, FilesTyped
  <2>4. HalfWay(proc[p])'
    BY <2>2, RestsHalfWay DEF Working
  <2>5. KeysAgree'
    BY <1>1, <2>1, <2>3, SameConf DEF KeysAgree
  <2> QED
    BY <1>0, <1>1, <2>1, <2>4, <2>5, SameConf, OneWorks
<1> QED
  BY <1>2, <1>3, <1>4, <1>5, <1>6 DEF CreatePeer

\* cmd_disable_peer, and the cut: the block that is saved is the one the config is of.
LEMMA DisableFiles ==
  ASSUME TypeInv, Locked, FilesInv, NEW p \in Procs, DisablePeer(p) \/ Cut(p)
  PROVE  FilesInv'
<1>0. Works(p) /\ proc[p].pc # "gone"
  BY WorkStep DEF Works, Working
<1>1. Finds(p) /\ AddressesApart /\ KeysAgree
  BY <1>0, FindsIt DEF FilesInv
<1>2. CASE DisableNothing(p) \/ DisableLive(p)
  BY <1>0, <1>2, EndsFiles DEF DisableNothing, DisableLive
<1>3. CASE DisableSave(p)
  <2> DEFINE b == FindPeer(proc[p].name)
  <2>1. /\ InConf(proc[p].name) /\ Takes(p, "cut", b) /\ UNCHANGED <<conf, config>>
        /\ saved' = [saved EXCEPT ![proc[p].name] = IF @ = NoBlock THEN b ELSE @]
    BY <1>3 DEF DisableSave
  <2>2. proc'[p].pc = "cut" /\ proc'[p].name = proc[p].name /\ proc'[p].block = b
    BY <1>0, <2>1, TakesIs
  <2>3. b \in Blocks /\ b.name = proc[p].name /\ b # NoBlock
    BY <1>1, <2>1, FindPeerIs DEF Finds, FilesTyped
  <2> HIDE DEF b
  <2>4. HalfWay(proc[p])'
    BY <2>1, <2>2, <2>3, SameConf DEF HalfWay
  <2>5. /\ saved'[proc[p].name] = IF saved[proc[p].name] = NoBlock THEN b ELSE saved[proc[p].name]
        /\ \A n \in Names : n # proc[p].name => saved'[n] = saved[n]
    BY <1>1, <2>1 DEF Finds, FilesTyped
  <2>6. saved[proc[p].name] = NoBlock => config[proc[p].name] = b
    BY <1>1, <2>3 DEF KeysAgree, Finds
  <2>7. KeysAgree'
    BY <1>1, <2>1, <2>3, <2>5, <2>6, SameConf DEF KeysAgree
  <2> QED
    BY <1>0, <1>1, <2>1, <2>4, <2>7, SameConf, OneWorks
<1>4. CASE Cut(p)
  <2>1. proc[p].pc = "cut" /\ Goes(p, "awg") /\ UNCHANGED <<saved, config>>
    BY <1>4 DEF Cut
  <2>2. /\ proc'[p].pc = "awg" /\ proc'[p].name = proc[p].name /\ proc'[p].block = proc[p].block
        /\ proc'[p].cmd = proc[p].cmd
    BY <1>0, <2>1, GoesIs
  <2>3. Blocks' = {b \in Blocks : b.name # proc[p].name} /\ AddressesApart'
    BY <1>1, <1>4, CutConf DEF Cut, Finds, FilesTyped
  <2>4. proc[p].cmd # "enable"
    BY <2>1, <1>0, Asked DEF TypeInv, CallOK
  <2>5. HalfWay(proc[p])'
    BY <2>2, <2>3, <2>4, InConfIs DEF HalfWay
  <2>6. KeysAgree'
    BY <1>1, <2>1, <2>3, InConfIs DEF KeysAgree
  <2> QED
    BY <1>0, <2>3, <2>5, <2>6, OneWorks
<1> QED
  BY <1>2, <1>3, <1>4 DEF DisablePeer

\* cmd_enable_peer: what is put back is the saved block, at an address that is free.
LEMMA EnableFiles ==
  ASSUME TypeInv, Locked, FilesInv, NEW p \in Procs, EnablePeer(p)
  PROVE  FilesInv'
<1>0. Works(p) /\ proc[p].pc # "gone"
  BY WorkStep DEF Works, Working
<1>1. Finds(p) /\ AddressesApart /\ KeysAgree
  BY <1>0, FindsIt DEF FilesInv
<1>2. CASE EnableRefused(p) \/ EnableLive(p)
  BY <1>0, <1>2, EndsFiles DEF EnableRefused, EnableLive
<1>3. CASE EnablePresent(p)
  <2> DEFINE b == FindPeer(proc[p].name)
  <2>1. /\ InConf(proc[p].name) /\ Takes(p, "awg", b) /\ UNCHANGED <<conf, saved, config>>
        /\ proc[p].cmd = "enable"
    BY <1>3 DEF EnablePresent, At
  <2>2. proc'[p].pc = "awg" /\ proc'[p].block = b /\ proc'[p].cmd = "enable"
    BY <1>0, <2>1, TakesIs
  <2>3. b \in Blocks
    BY <1>1, <2>1, FindPeerIs DEF Finds, FilesTyped
  <2>4. HalfWay(proc[p])'
    BY <2>1, <2>2, <2>3, SameConf DEF HalfWay
  <2> QED
    BY <1>0, <1>1, <2>1, <2>4, SameConf, OneWorks DEF KeysAgree
<1>4. CASE EnableConf(p)
  <2> DEFINE b == saved[proc[p].name]
  <2>1. /\ ~InConf(proc[p].name) /\ Takes(p, "awg", b) /\ UNCHANGED <<saved, config>> /\ conf' = Append(conf, b)
        /\ proc[p].cmd = "enable" /\ b # NoBlock /\ b.addr \notin ConfAddrs
    BY <1>4 DEF EnableConf, At, Restorable
  <2>2. proc'[p].pc = "awg" /\ proc'[p].block = b /\ proc'[p].cmd = "enable"
    BY <1>0, <2>1, TakesIs
  <2>3. b \in Block /\ b.name = proc[p].name
    BY <1>1, <2>1 DEF Finds, FilesTyped
  <2>4. Blocks' = Blocks \union {b} /\ AddressesApart'
    BY <1>1, <2>1, <2>3, AppendConf DEF Finds, FilesTyped
  <2>5. HalfWay(proc[p])'
    BY <2>2, <2>4 DEF HalfWay
  <2>6. KeysAgree'
    BY <1>1, <2>1, <2>3, <2>4, InConfIs DEF KeysAgree
  <2> QED
    BY <1>0, <2>4, <2>5, <2>6, OneWorks
<1> QED
  BY <1>2, <1>3, <1>4 DEF EnablePeer

\* cmd_remove_peer: what is left of a client when a step fails is of one key pair too.
LEMMA RemoveFiles ==
  ASSUME TypeInv, Locked, FilesInv, NEW p \in Procs, RemovePeer(p)
  PROVE  FilesInv'
<1>0. Works(p) /\ proc[p].pc # "gone" /\ proc[p].cmd = "remove"
  BY WorkStep DEF Works, Working, RemovePeer, RemoveBegin, RemoveLive, RemoveConfig, RemoveSaved, At
<1>1. Finds(p) /\ AddressesApart /\ KeysAgree
  BY <1>0, FindsIt DEF FilesInv
<1>2. CASE RemoveBegin(p)
  <2>1. UNCHANGED <<conf, saved, config>>
    BY <1>2 DEF RemoveBegin
  <2>2. HalfWay(proc[p])'
    <3>1. CASE InConf(proc[p].name) /\ Takes(p, "cut", FindPeer(proc[p].name))
      <4>1. proc'[p].pc = "cut" /\ proc'[p].block \in Blocks
        BY <1>0, <1>1, <3>1, TakesIs, FindPeerIs DEF Finds, FilesTyped
      <4> QED
        BY <2>1, <4>1, SameConf DEF HalfWay
    <3>2. CASE ~InConf(proc[p].name) /\ Takes(p, "awg", saved[proc[p].name])
      <4>1. proc'[p].pc = "awg" /\ proc'[p].name = proc[p].name /\ proc'[p].cmd = "remove"
        BY <1>0, <3>2, TakesIs
      <4> QED
        BY <2>1, <3>2, <4>1, SameConf DEF HalfWay
    <3>3. CASE ~InConf(proc[p].name) /\ Goes(p, "unlink")
      <4>1. proc'[p].pc = "unlink" /\ proc'[p].name = proc[p].name
        BY <1>0, <3>3, GoesIs
      <4> QED
        BY <2>1, <3>3, <4>1, SameConf DEF HalfWay
    <3> QED
      BY <1>2, <3>1, <3>2, <3>3 DEF RemoveBegin
  <2> QED
    BY <1>0, <1>1, <2>1, <2>2, SameConf, OneWorks DEF KeysAgree
<1>3. CASE RemoveLive(p)
  <2>1. proc[p].pc = "awg" /\ Goes(p, "unlink") /\ UNCHANGED <<conf, saved, config>>
    BY <1>3 DEF RemoveLive, At
  <2>2. proc'[p].pc = "unlink" /\ proc'[p].name = proc[p].name
    BY <1>0, <2>1, GoesIs
  <2>3. ~InConf(proc[p].name)
    BY <1>0, <1>1, <2>1 DEF Finds, HalfWay
  <2>4. HalfWay(proc[p])'
    BY <2>1, <2>2, <2>3, SameConf DEF HalfWay
  <2> QED
    BY <1>0, <1>1, <2>1, <2>4, SameConf, OneWorks DEF KeysAgree
<1>4. CASE RemoveConfig(p)
  <2>1. /\ proc[p].pc = "unlink" /\ Goes(p, "unlink_peer") /\ UNCHANGED <<conf, saved>>
        /\ config' = [config EXCEPT ![proc[p].name] = NoBlock]
    BY <1>4 DEF RemoveConfig, At
  <2>2. proc'[p].pc = "unlink_peer" /\ proc'[p].name = proc[p].name
    BY <1>0, <2>1, GoesIs
  <2>3. /\ ~InConf(proc[p].name) /\ config'[proc[p].name] = NoBlock
        /\ \A n \in Names : n # proc[p].name => config'[n] = config[n]
    BY <1>1, <2>1 DEF Finds, HalfWay, FilesTyped
  <2>4. HalfWay(proc[p])'
    BY <2>1, <2>2, <2>3, SameConf DEF HalfWay
  <2>5. \A b \in Blocks : b.name # proc[p].name
    BY <2>3, InConfIs
  <2>6. KeysAgree'
    BY <1>1, <2>1, <2>3, <2>5, SameConf DEF KeysAgree
  <2> QED
    BY <1>0, <1>1, <2>1, <2>4, <2>6, SameConf, OneWorks
<1>5. CASE RemoveSaved(p)
  <2>1. /\ proc[p].pc = "unlink_peer" /\ Goes(p, "ok") /\ UNCHANGED <<conf, config>>
        /\ saved' = [saved EXCEPT ![proc[p].name] = NoBlock]
    BY <1>5 DEF RemoveSaved, At, Ends
  <2>2. proc'[p].pc = "ok"
    BY <1>0, <2>1, GoesIs
  <2>3. /\ ~InConf(proc[p].name) /\ saved'[proc[p].name] = NoBlock
        /\ \A n \in Names : n # proc[p].name => saved'[n] = saved[n]
    BY <1>1, <2>1 DEF Finds, HalfWay, FilesTyped
  <2>4. HalfWay(proc[p])'
    BY <2>2, RestsHalfWay DEF Working
  <2>5. \A b \in Blocks : b.name # proc[p].name
    BY <2>3, InConfIs
  <2>6. KeysAgree'
    BY <1>1, <2>1, <2>3, <2>5, SameConf DEF KeysAgree
  <2> QED
    BY <1>0, <1>1, <2>1, <2>4, <2>6, SameConf, OneWorks
<1> QED
  BY <1>2, <1>3, <1>4, <1>5 DEF RemovePeer

\* Calls, faults, and what happens to the server besides.
LEMMA RestFiles ==
  ASSUME TypeInv, Locked, FilesInv,
         \/ \E p \in Procs : \/ \E cmd \in Commands, n \in Names : Request(p, cmd, n)
                             \/ Acquire(p) \/ Respond(p) \/ AwgError(p) \/ Kill(p)
         \/ Reboot
         \/ \E n \in Names, a \in Addrs : ScriptAdd(n, a)
  PROVE  FilesInv'
<1>0. proc = [p \in Procs |-> proc[p]] /\ Gone.pc = "gone"
  BY DEF TypeInv, Gone
<1>1. ASSUME NEW p \in Procs, NEW cmd \in Commands, NEW n \in Names, Request(p, cmd, n) PROVE FilesInv'
  <2>1. proc'[p].pc = "wait" /\ \A q \in Procs : q # p => proc'[q] = proc[q]
    BY <1>0, <1>1 DEF Request
  <2>2. HalfWay(proc[p])'
    BY <2>1, RestsHalfWay DEF Working
  <2> QED
    BY <1>1, <2>1, <2>2, RestingFiles DEF Request
<1>2. ASSUME NEW p \in Procs, Acquire(p) PROVE FilesInv'
  <2>1. proc'[p].pc = "begin" /\ \A q \in Procs : q # p => proc'[q] = proc[q]
    BY <1>2, GoesIs, Turn DEF Acquire
  <2>2. HalfWay(proc[p])'
    BY <2>1 DEF HalfWay
  <2> QED
    BY <1>2, <2>1, <2>2, RestingFiles DEF Acquire
<1>3. ASSUME NEW p \in Procs, Respond(p) \/ Kill(p) PROVE FilesInv'
  <2>1. proc'[p].pc = "gone" /\ \A q \in Procs : q # p => proc'[q] = proc[q]
    BY <1>0, <1>3 DEF Respond, Kill
  <2>2. HalfWay(proc[p])'
    BY <2>1, RestsHalfWay DEF Working
  <2> QED
    BY <1>3, <2>1, <2>2, RestingFiles DEF Respond, Kill
<1>4. ASSUME NEW p \in Procs, AwgError(p) PROVE FilesInv'
  BY <1>4, EndsFiles DEF AwgError
<1>5. CASE Reboot
  <2>1. \A p \in Procs : HalfWay(proc[p])'
    BY <1>0, <1>5, RestsHalfWay DEF Reboot, Working
  <2> QED
    BY <1>5, <2>1, SameConf DEF Reboot, FilesInv, KeysAgree
<1>6. ASSUME NEW n \in Names, NEW a \in Addrs, ScriptAdd(n, a) PROVE FilesInv'
  <2> DEFINE b == [name |-> n, addr |-> a]
  <2>1. /\ conf' = Append(conf, b) /\ config' = [config EXCEPT ![n] = b] /\ UNCHANGED <<saved, proc>>
        /\ lock = NoProc /\ config[n] = NoBlock /\ saved[n] = NoBlock /\ ~InConf(n) /\ b.addr \notin ConfAddrs
    BY <1>6 DEF ScriptAdd
  <2>2. b \in Block /\ b.name = n
    BY DEF Block
  <2> HIDE DEF b
  <2>3. Blocks' = Blocks \union {b} /\ (AddressesApart => AddressesApart')
    BY <2>1, <2>2, AppendConf DEF TypeInv, FilesTyped
  <2>4. config'[n] = b /\ \A m \in Names : m # n => config'[m] = config[m]
    BY <2>1 DEF TypeInv, FilesTyped
  <2>5. KeysAgree'
    <3>1. \A c \in Blocks : c.name # n
      BY <2>1, InConfIs
    <3> QED
      BY <2>1, <2>2, <2>3, <2>4, <3>1, InConfIs DEF FilesInv, KeysAgree
  <2>6. \A p \in Procs : HalfWay(proc[p])'
    BY <2>1, RestsHalfWay, VpnctlAssumption DEF Locked
  <2> QED
    BY <2>3, <2>5, <2>6 DEF FilesInv
<1> QED
  BY <1>1, <1>2, <1>3, <1>4, <1>5, <1>6

\* Every step keeps the files.
LEMMA FilesNext == TypeInv /\ Locked /\ FilesInv /\ [Next]_vars => FilesInv'
<1> SUFFICES ASSUME TypeInv, Locked, FilesInv, [Next]_vars PROVE FilesInv'
  OBVIOUS
<1>1. CASE UNCHANGED vars
  <2>1. \A p \in Procs : HalfWay(proc[p])'
    BY <1>1, SameConf DEF vars, FilesInv, HalfWay
  <2> QED
    BY <1>1, <2>1, SameConf DEF vars, FilesInv, KeysAgree
<1> QED
  BY <1>1, CreateFiles, DisableFiles, EnableFiles, RemoveFiles, RestFiles DEF Next

Inv == TypeInv /\ Locked /\ FilesInv

\* They hold at first.
LEMMA InitInv == Init => Inv
<1> SUFFICES ASSUME Init PROVE Locked
  BY TypeInit, InitFiles DEF Inv
<1> QED
  BY DEF Init, Locked, Working, Gone

\* They hold always.
LEMMA Invariant == Spec => []Inv
<1>1. Inv /\ [Next]_vars => Inv'
  BY TypeNext, LockNext, FilesNext DEF Inv
<1> QED
  BY <1>1, InitInv, PTL DEF Spec

\* No two blocks of awg1.conf share an address, whatever fails half way: cmd_create_peer
\* looks at every file for addresses, cmd_enable_peer at awg1.conf once more.
THEOREM AddressesStayApart == Spec => []AddressesApart
<1>1. Inv => AddressesApart
  BY DEF Inv, FilesInv
<1> QED
  BY <1>1, Invariant, PTL

\* The config a customer holds has the keys of the client's block, or of the block that
\* would be put back: no fault leaves them with different keys.
THEOREM ConfigsWork == Spec => []ConfigWorks
<1>1. Inv => ConfigWorks
  <2> SUFFICES ASSUME KeysAgree PROVE ConfigWorks
    BY DEF Inv, FilesInv
  <2> QED
    BY DEF KeysAgree, ConfigWorks
<1> QED
  BY <1>1, Invariant, PTL

\* A call that is answered is answered by a step of its own command.
LEMMA OwnStep ==
  ASSUME Inv, Next, NEW p \in Procs, NEW cmd, Answers(p, cmd)
  PROVE  Works(p) /\ proc[p].pc # "gone"
<1>0. TypeInv /\ Locked /\ FilesInv /\ proc = [q \in Procs |-> proc[q]] /\ Gone.pc = "gone"
  BY DEF Inv, TypeInv, Gone
<1>1. proc'[p].pc = "ok" /\ proc[p].pc # "ok"
  BY DEF Answers
<1>2. ASSUME NEW q \in Procs, Works(q) \/ AwgError(q) PROVE q = p
  BY <1>0, <1>1, <1>2, WorkStep
<1>3. ASSUME NEW q \in Procs, \E c \in Commands, n \in Names : Request(q, c, n) PROVE FALSE
  BY <1>0, <1>1, <1>3 DEF Request
<1>4. ASSUME NEW q \in Procs, Acquire(q) PROVE FALSE
  <2>1. proc'[q].pc = "begin" /\ \A r \in Procs : r # q => proc'[r] = proc[r]
    BY <1>0, <1>4, GoesIs, Turn DEF Acquire
  <2> QED
    BY <1>1, <2>1
<1>5. ASSUME NEW q \in Procs, Respond(q) \/ Kill(q) PROVE FALSE
  BY <1>0, <1>1, <1>5 DEF Respond, Kill
<1>6. ~Reboot /\ ~(\E n \in Names, a \in Addrs : ScriptAdd(n, a))
  BY <1>1 DEF Reboot, ScriptAdd
<1>7. Works(p) \/ AwgError(p)
  BY <1>2, <1>3, <1>4, <1>5, <1>6 DEF Next, Works
<1>8. proc[p].pc # "gone"
  BY <1>0, <1>7, WorkStep DEF Working
<1>9. ~AwgError(p)
  BY <1>0, <1>1, <1>8, GoesIs DEF AwgError, Ends
<1> QED
  BY <1>7, <1>8, <1>9

\* Who is told that a client is on finds its block in awg1.conf and on the interface:
\* cmd_enable_peer sets the one that it put back or found in the file.
THEOREM EnabledIsOn == Spec => OnIsOn
<1> DEFINE On == \A p \in Procs : Answers(p, "enable") =>
                   \E b \in live' \intersect Blocks' : b.name = proc[p].name
<1>1. Inv /\ [Next]_vars => [On]_vars
  <2> SUFFICES ASSUME Inv, Next, NEW p \in Procs, Answers(p, "enable")
               PROVE  \E b \in live' \intersect Blocks' : b.name = proc[p].name
    OBVIOUS
  <2>0. TypeInv /\ FilesInv /\ Works(p) /\ proc[p].pc # "gone"
    BY OwnStep DEF Inv
  <2>1. proc[p].cmd = "enable" /\ proc'[p].pc = "ok"
    BY DEF Answers
  <2>2. EnableLive(p)
    <3>1. ~Goes(p, "error")
      BY <2>0, <2>1, GoesIs
    <3>2. \A b : ~Takes(p, "awg", b)
      BY <2>0, <2>1, TakesIs
    <3>3. ~Goes(p, "awg")
      BY <2>0, <2>1, GoesIs
    <3>4. ~Cut(p)
      BY <3>3 DEF Cut
    <3> QED
      BY <2>0, <2>1, <3>1, <3>2, <3>4
         DEF Works, CreatePeer, CreateExisting, CreateLive, CreateFull, CreateSave, CreateConf, CreateConfig,
             CreateUndone, DisablePeer, DisableNothing, DisableSave, DisableLive, EnablePeer, EnablePresent,
             EnableConf, EnableRefused, RemovePeer, RemoveBegin, RemoveLive, RemoveConfig, RemoveSaved, At, Ends
  <2>3. proc[p].block \in Blocks /\ proc[p].block.name = proc[p].name
    BY <2>0, <2>2, FindsIt DEF EnableLive, At, Finds, HalfWay
  <2> QED
    BY <2>2, <2>3, SameConf DEF EnableLive, AwgSet
<1>2. Spec => [][On]_vars
  BY <1>1, Invariant, PTL DEF Spec
<1> QED
  BY <1>2 DEF OnIsOn
-----------------------------------------------------------------------------
(* The files and the interface, until the first fault. *)

\* The process that has the lock is at one of these steps of a command for n.
Busy(n, pcs) == lock \in Procs /\ proc[lock].pc \in pcs /\ proc[lock].name = n

\* A client has one block.
OneBlock == \A b, c \in Blocks : b.name = c.name => b = c

\* A client without a config has nothing else, except while it is made or removed.
Whole ==
  \A n \in Names : config[n] = NoBlock =>
    /\ InConf(n) => Busy(n, {"config"})
    /\ saved[n] # NoBlock => Busy(n, {"conf", "config", "unlink_peer"})

\* How far the interface is from awg1.conf at each step of a command.
LiveFits(r) ==
  /\ r.pc \in {"begin", "config", "cut", "unlink", "unlink_peer"} => live = Blocks
  /\ r.pc \in {"save", "conf"} => live = Blocks \union {r.block} /\ ~InConf(r.name)
  /\ r.pc = "awg" => IF r.cmd = "enable" THEN Blocks = live \union {r.block} ELSE live \ {r.block} = Blocks

Calm ==
  /\ OneBlock
  /\ Whole
  /\ lock = NoProc => live = Blocks
  /\ \A p \in Procs : LiveFits(proc[p])

CalmInv == faults = 0 => Calm

\* There is nothing at first.
LEMMA InitCalm == Init => CalmInv
<1> SUFFICES ASSUME Init PROVE Calm
  BY DEF CalmInv
<1>1. Blocks = {} /\ \A n : ~InConf(n)
  BY DEF Init, Blocks, InConf, Named
<1>2. \A p \in Procs : LiveFits(proc[p])
  BY DEF Init, Gone, LiveFits
<1> QED
  BY <1>1, <1>2 DEF Init, Calm, OneBlock, Whole

\* Faults are counted and never forgotten.
LEMMA FaultsGrow ==
  ASSUME TypeInv, [Next]_vars, faults' = 0
  PROVE  faults = 0
<1>1. faults \in Nat
  BY DEF TypeInv, FilesTyped
<1>2. faults' = faults \/ faults' = faults + 1
  BY DEF Next, Request, Acquire, Respond, Reboot, ScriptAdd, Kill, AwgError, Fault, Cut,
         CreatePeer, CreateExisting, CreateLive, CreateFull, CreateSave, CreateConf, CreateConfig, CreateUndone,
         DisablePeer, DisableNothing, DisableSave, DisableLive, EnablePeer, EnablePresent, EnableConf,
         EnableRefused, EnableLive, RemovePeer, RemoveBegin, RemoveLive, RemoveConfig, RemoveSaved, vars
<1> QED
  BY <1>1, <1>2

\* A process that is not at work asks nothing of the interface.
LEMMA RestsLive ==
  ASSUME NEW q \in Procs, proc'[q].pc \notin Working
  PROVE  LiveFits(proc[q])'
BY DEF LiveFits, Working

\* What a client's files are while p is at work: p is the one that may be in between.
LEMMA WholeAt ==
  ASSUME Inv, Calm, NEW p \in Procs, proc[p].pc \in Working
  PROVE  /\ lock = p
         /\ \A n \in Names : config[n] = NoBlock /\ n # proc[p].name => ~InConf(n) /\ saved[n] = NoBlock
         /\ config[proc[p].name] = NoBlock =>
              /\ InConf(proc[p].name) => proc[p].pc = "config"
              /\ saved[proc[p].name] # NoBlock => proc[p].pc \in {"conf", "config", "unlink_peer"}
<1>1. lock = p
  BY DEF Inv, Locked
<1>2. proc[p].name \in Names
  BY Asked DEF Inv, Working
<1> QED
  BY <1>1, <1>2 DEF Calm, Whole, Busy

\* After a step of a command it is enough to look at its client and its process.
LEMMA CalmWorks ==
  ASSUME Inv, Calm, NEW p \in Procs, Works(p), OneBlock', LiveFits(proc[p])',
         lock' = NoProc => live' = Blocks',
         \A n \in Names : n # proc[p].name =>
           config'[n] = config[n] /\ saved'[n] = saved[n] /\ (InConf(n)' => InConf(n)),
         \A n \in Names : n = proc[p].name /\ config'[n] = NoBlock =>
           /\ InConf(n)' => lock' = p /\ proc'[p].pc = "config"
           /\ saved'[n] # NoBlock => lock' = p /\ proc'[p].pc \in {"conf", "config", "unlink_peer"}
  PROVE  Calm'
<1>1. proc[p].pc \in Working /\ proc'[p].name = proc[p].name
  BY WorkStep DEF Inv
<1>2. \A q \in Procs : LiveFits(proc[q])'
  BY OthersWait, RestsLive DEF Inv
<1>3. Whole'
  <2> SUFFICES ASSUME NEW n \in Names, config'[n] = NoBlock
               PROVE  /\ InConf(n)' => Busy(n, {"config"})'
                      /\ saved'[n] # NoBlock => Busy(n, {"conf", "config", "unlink_peer"})'
    BY DEF Whole
  <2>1. CASE n # proc[p].name
    BY <1>1, <2>1, WholeAt
  <2>2. CASE n = proc[p].name
    BY <1>1, <2>2 DEF Busy
  <2> QED
    BY <2>1, <2>2
<1> QED
  BY <1>2, <1>3 DEF Calm

\* The same for a step that writes no file.
LEMMA CalmReads ==
  ASSUME Inv, Calm, NEW p \in Procs, Works(p), UNCHANGED <<conf, saved, config>>, LiveFits(proc[p])',
         lock' = NoProc => live' = Blocks, proc[p].pc \in {"begin", "awg"}
  PROVE  Calm'
<1>1. OneBlock'
  BY SameConf DEF Calm, OneBlock
<1>2. proc[p].pc \in Working
  BY WorkStep DEF Inv
<1>3. \A n : InConf(n)' <=> InConf(n)
  BY SameConf
<1>4. config[proc[p].name] = NoBlock => ~InConf(proc[p].name) /\ saved[proc[p].name] = NoBlock
  BY <1>2, WholeAt
<1>5. Blocks' = Blocks
  BY SameConf
<1>6. \A n \in Names : n # proc[p].name =>
        config'[n] = config[n] /\ saved'[n] = saved[n] /\ (InConf(n)' => InConf(n))
  BY <1>3
<1>7. \A n \in Names : n = proc[p].name /\ config'[n] = NoBlock =>
        /\ InConf(n)' => lock' = p /\ proc'[p].pc = "config"
        /\ saved'[n] # NoBlock => lock' = p /\ proc'[p].pc \in {"conf", "config", "unlink_peer"}
  BY <1>3, <1>4
<1>8. lock' = NoProc => live' = Blocks'
  BY <1>5
<1> QED
  BY <1>1, <1>6, <1>7, <1>8, CalmWorks

\* What a step of a command of p finds while there was no fault.
LEMMA FindsCalm ==
  ASSUME Inv, Calm, NEW p \in Procs, Works(p)
  PROVE  /\ Finds(p) /\ AddressesApart /\ OneBlock /\ LiveFits(proc[p]) /\ TypeInv
         /\ NoProc \notin Procs /\ lock = p
         /\ config[proc[p].name] = NoBlock =>
              /\ InConf(proc[p].name) => proc[p].pc = "config"
              /\ saved[proc[p].name] # NoBlock => proc[p].pc \in {"conf", "config", "unlink_peer"}
<1>1. proc[p].pc \in Working /\ proc[p].pc # "gone"
  BY WorkStep DEF Inv, Working
<1> QED
  BY <1>1, FindsIt, WholeAt, VpnctlAssumption DEF Inv, FilesInv, Calm

\* cmd_create_peer sets the peer live before it writes a file, and awg1.conf catches up.
LEMMA CreateCalm ==
  ASSUME Inv, Calm, NEW p \in Procs, CreatePeer(p), faults' = 0
  PROVE  Calm'
<1>0. Works(p)
  BY DEF Works
<1>1. Finds(p) /\ AddressesApart /\ OneBlock /\ LiveFits(proc[p]) /\ TypeInv /\ proc[p].pc # "gone" /\ lock = p
      /\ NoProc \notin Procs /\ faults \in Nat
  BY <1>0, FindsCalm DEF Finds, FilesTyped
<1>2. CASE CreateExisting(p) \/ CreateFull(p)
  <2>1. PICK result \in {"ok", "error"} : Ends(p, result)
    BY <1>2 DEF CreateExisting, CreateFull
  <2>2. UNCHANGED <<conf, live, saved, config>> /\ proc[p].pc = "begin"
    BY <1>2 DEF CreateExisting, CreateFull, At
  <2>3. LiveFits(proc[p])'
    BY <1>1, <2>1, GoesIs, RestsLive DEF Ends, Working
  <2> QED
    BY <1>0, <1>1, <2>2, <2>3, CalmReads DEF LiveFits
<1>3. CASE CreateLive(p)
  <2>1. PICK a \in Addrs \ Used :
          LET b == [name |-> proc[p].name, addr |-> a] IN AwgSet(b) /\ Takes(p, "save", b)
    BY <1>3 DEF CreateLive
  <2> DEFINE b == [name |-> proc[p].name, addr |-> a]
  <2>2. AwgSet(b) /\ Takes(p, "save", b) /\ b.addr \notin ConfAddrs
    BY <2>1 DEF Used
  <2>3. proc[p].pc = "begin" /\ config[proc[p].name] = NoBlock /\ UNCHANGED <<conf, saved, config, lock>>
    BY <1>3 DEF CreateLive, At
  <2> HIDE DEF b
  <2>4. proc'[p].pc = "save" /\ proc'[p].name = proc[p].name /\ proc'[p].block = b
    BY <1>1, <2>2, TakesIs
  <2>5. live = Blocks /\ ~InConf(proc[p].name)
    BY <1>0, <1>1, <2>3, FindsCalm DEF LiveFits
  <2>6. live' = Blocks \union {b}
    BY <2>2, <2>5 DEF AwgSet, ConfAddrs
  <2>7. LiveFits(proc[p])'
    BY <2>3, <2>4, <2>5, <2>6, SameConf DEF LiveFits
  <2> QED
    BY <1>0, <1>1, <2>3, <2>7, CalmReads
<1>4. CASE CreateSave(p)
  <2>1. /\ proc[p].pc = "save" /\ Goes(p, "conf") /\ UNCHANGED <<conf, live, config, lock>>
        /\ saved' = [saved EXCEPT ![proc[p].name] = proc[p].block]
    BY <1>4 DEF CreateSave, At
  <2>2. proc'[p].pc = "conf" /\ proc'[p].name = proc[p].name /\ proc'[p].block = proc[p].block
    BY <1>1, <2>1, GoesIs
  <2>3. live = Blocks \union {proc[p].block} /\ ~InConf(proc[p].name)
    BY <1>1, <2>1 DEF LiveFits
  <2>4. LiveFits(proc[p])'
    BY <2>1, <2>2, <2>3, SameConf DEF LiveFits
  <2>5. \A n \in Names : n # proc[p].name => saved'[n] = saved[n]
    BY <1>1, <2>1 DEF Finds, FilesTyped
  <2>6. OneBlock' /\ \A n : InConf(n)' <=> InConf(n)
    BY <1>1, <2>1, SameConf DEF OneBlock
  <2> QED
    BY <1>0, <1>1, <2>1, <2>2, <2>3, <2>4, <2>5, <2>6, CalmWorks
<1>5. CASE CreateConf(p)
  <2>1. /\ proc[p].pc = "conf" /\ Goes(p, "config") /\ UNCHANGED <<live, saved, config, lock>>
        /\ conf' = Append(conf, proc[p].block)
    BY <1>5 DEF CreateConf, At
  <2>2. proc'[p].pc = "config" /\ proc'[p].name = proc[p].name /\ proc'[p].block = proc[p].block
    BY <1>1, <2>1, GoesIs
  <2>3. live = Blocks \union {proc[p].block} /\ ~InConf(proc[p].name)
        /\ proc[p].block \in Block /\ proc[p].block.name = proc[p].name
    BY <1>1, <2>1 DEF LiveFits, Finds
  <2>4. Blocks' = Blocks \union {proc[p].block}
    BY <1>1, <2>1, <2>3, AppendConf DEF Finds, FilesTyped
  <2>5. LiveFits(proc[p])'
    BY <2>1, <2>2, <2>3, <2>4 DEF LiveFits
  <2>6. OneBlock'
    BY <1>1, <2>3, <2>4, InConfIs DEF OneBlock
  <2>7. \A n \in Names : n # proc[p].name => (InConf(n)' => InConf(n))
    BY <2>3, <2>4, InConfIs
  <2> QED
    BY <1>0, <1>1, <2>1, <2>2, <2>5, <2>6, <2>7, CalmWorks
<1>6. CASE CreateConfig(p)
  <2>1. /\ proc[p].pc = "config" /\ Goes(p, "ok") /\ UNCHANGED <<conf, live, saved>>
        /\ config' = [config EXCEPT ![proc[p].name] = proc[p].block]
    BY <1>6 DEF CreateConfig, At, Ends
  <2>2. LiveFits(proc[p])'
    <3>1. proc'[p].pc = "ok"
      BY <1>1, <2>1, GoesIs
    <3> QED
      BY <3>1, RestsLive DEF Working
  <2>3. /\ proc[p].block # NoBlock /\ config'[proc[p].name] = proc[p].block
        /\ \A n \in Names : n # proc[p].name => config'[n] = config[n]
    BY <1>1, <2>1 DEF Finds, FilesTyped
  <2>4. OneBlock' /\ (\A n : InConf(n)' <=> InConf(n)) /\ live' = Blocks'
    BY <1>1, <2>1, SameConf DEF OneBlock, LiveFits
  <2> QED
    BY <1>0, <1>1, <2>1, <2>2, <2>3, <2>4, CalmWorks
<1>7. ~CreateUndone(p)
  BY <1>1 DEF CreateUndone, Fault
<1> QED
  BY <1>2, <1>3, <1>4, <1>5, <1>6, <1>7 DEF CreatePeer

\* cmd_disable_peer and the cut: awg1.conf loses the block, and the interface catches up.
LEMMA DisableCalm ==
  ASSUME Inv, Calm, NEW p \in Procs, DisablePeer(p) \/ Cut(p)
  PROVE  Calm'
<1>0. Works(p)
  BY DEF Works
<1>1. Finds(p) /\ AddressesApart /\ OneBlock /\ LiveFits(proc[p]) /\ TypeInv /\ proc[p].pc # "gone" /\ lock = p
      /\ NoProc \notin Procs
  BY <1>0, FindsCalm DEF Finds
<1>2. CASE DisableNothing(p) \/ DisableLive(p)
  <2>1. Goes(p, "ok") /\ UNCHANGED <<conf, saved, config>> /\ proc[p].pc \in {"begin", "awg"}
    BY <1>2 DEF DisableNothing, DisableLive, At, Ends
  <2>2. LiveFits(proc[p])'
    <3>1. proc'[p].pc = "ok"
      BY <1>1, <2>1, GoesIs
    <3> QED
      BY <3>1, RestsLive DEF Working
  <2>3. live' = Blocks
    BY <1>1, <1>2 DEF DisableNothing, DisableLive, AwgRemove, At, LiveFits
  <2> QED
    BY <1>0, <1>1, <2>1, <2>2, <2>3, CalmReads
<1>3. CASE DisableSave(p)
  <2> DEFINE b == FindPeer(proc[p].name)
  <2>1. /\ InConf(proc[p].name) /\ Takes(p, "cut", b) /\ UNCHANGED <<conf, live, config, lock>>
        /\ saved' = [saved EXCEPT ![proc[p].name] = IF @ = NoBlock THEN b ELSE @]
        /\ proc[p].pc = "begin"
    BY <1>3 DEF DisableSave, At
  <2> HIDE DEF b
  <2>2. proc'[p].pc = "cut"
    BY <1>1, <2>1, TakesIs
  <2>3. LiveFits(proc[p])'
    BY <1>1, <2>1, <2>2, SameConf DEF LiveFits
  <2>4. \A n \in Names : n # proc[p].name => saved'[n] = saved[n]
    BY <1>1, <2>1 DEF Finds, FilesTyped
  <2>5. config[proc[p].name] # NoBlock
    BY <1>0, <2>1, FindsCalm
  <2>6. OneBlock' /\ \A n : InConf(n)' <=> InConf(n)
    BY <1>1, <2>1, SameConf DEF OneBlock
  <2> QED
    BY <1>0, <1>1, <2>1, <2>3, <2>4, <2>5, <2>6, CalmWorks
<1>4. CASE Cut(p)
  <2>1. proc[p].pc = "cut" /\ Goes(p, "awg") /\ UNCHANGED <<live, saved, config, lock>>
    BY <1>4 DEF Cut
  <2>2. proc'[p].pc = "awg" /\ proc'[p].block = proc[p].block /\ proc'[p].cmd = proc[p].cmd
    BY <1>1, <2>1, GoesIs
  <2>3. Blocks' = {b \in Blocks : b.name # proc[p].name}
    BY <1>1, <1>4, CutConf DEF Cut, Finds, FilesTyped
  <2>4. proc[p].cmd # "enable"
    BY <2>1, <1>1, Asked DEF TypeInv, CallOK
  <2>5. proc[p].block \in Blocks /\ proc[p].block.name = proc[p].name /\ live = Blocks
    BY <1>1, <2>1 DEF Finds, HalfWay, LiveFits
  <2>6. live \ {proc[p].block} = Blocks'
    BY <1>1, <2>3, <2>5 DEF OneBlock
  <2>7. LiveFits(proc[p])'
    BY <2>1, <2>2, <2>4, <2>6 DEF LiveFits
  <2>8. config[proc[p].name] # NoBlock
    BY <1>0, <2>1, <2>5, FindsCalm, InConfIs
  <2>9. OneBlock' /\ \A n \in Names : InConf(n)' => InConf(n)
    BY <1>1, <2>3, InConfIs DEF OneBlock
  <2> QED
    BY <1>0, <1>1, <2>1, <2>7, <2>8, <2>9, CalmWorks
<1> QED
  BY <1>2, <1>3, <1>4 DEF DisablePeer

\* cmd_enable_peer: the interface is short of the block that was put back until awg ran.
LEMMA EnableCalm ==
  ASSUME Inv, Calm, NEW p \in Procs, EnablePeer(p)
  PROVE  Calm'
<1>0. Works(p)
  BY DEF Works
<1>1. Finds(p) /\ AddressesApart /\ OneBlock /\ LiveFits(proc[p]) /\ TypeInv /\ proc[p].pc # "gone" /\ lock = p
      /\ NoProc \notin Procs
  BY <1>0, FindsCalm DEF Finds
<1>2. CASE EnableRefused(p)
  <2>1. Goes(p, "error") /\ UNCHANGED <<conf, live, saved, config>> /\ proc[p].pc = "begin"
    BY <1>2 DEF EnableRefused, At, Ends
  <2>2. LiveFits(proc[p])'
    <3>1. proc'[p].pc = "error"
      BY <1>1, <2>1, GoesIs
    <3> QED
      BY <3>1, RestsLive DEF Working
  <2> QED
    BY <1>0, <1>1, <2>1, <2>2, CalmReads DEF LiveFits
<1>3. CASE EnableLive(p)
  <2>1. Goes(p, "ok") /\ UNCHANGED <<conf, saved, config>> /\ AwgSet(proc[p].block)
        /\ proc[p].pc = "awg" /\ proc[p].cmd = "enable"
    BY <1>3 DEF EnableLive, At, Ends
  <2>2. LiveFits(proc[p])'
    <3>1. proc'[p].pc = "ok"
      BY <1>1, <2>1, GoesIs
    <3> QED
      BY <3>1, RestsLive DEF Working
  <2>3. Blocks = live \union {proc[p].block}
    BY <1>1, <2>1 DEF LiveFits
  <2>4. \A x \in Blocks : x.addr = proc[p].block.addr => x = proc[p].block
    BY <1>1, <2>3, BlocksApart DEF Finds, FilesTyped
  <2>5. live' = Blocks
    BY <2>1, <2>3, <2>4 DEF AwgSet
  <2> QED
    BY <1>0, <2>1, <2>2, <2>5, CalmReads
<1>4. CASE EnablePresent(p)
  <2> DEFINE b == FindPeer(proc[p].name)
  <2>1. /\ InConf(proc[p].name) /\ Takes(p, "awg", b) /\ UNCHANGED <<conf, live, saved, config, lock>>
        /\ proc[p].cmd = "enable" /\ proc[p].pc = "begin"
    BY <1>4 DEF EnablePresent, At
  <2>2. b \in Blocks /\ live = Blocks
    BY <1>1, <2>1, FindPeerIs DEF Finds, FilesTyped, LiveFits
  <2> HIDE DEF b
  <2>3. proc'[p].pc = "awg" /\ proc'[p].block = b /\ proc'[p].cmd = "enable"
    BY <1>1, <2>1, TakesIs
  <2>4. LiveFits(proc[p])'
    BY <2>1, <2>2, <2>3, SameConf DEF LiveFits
  <2> QED
    BY <1>0, <1>1, <2>1, <2>4, CalmReads
<1>5. CASE EnableConf(p)
  <2> DEFINE b == saved[proc[p].name]
  <2>1. /\ ~InConf(proc[p].name) /\ Takes(p, "awg", b) /\ UNCHANGED <<live, saved, config, lock>>
        /\ conf' = Append(conf, b) /\ b # NoBlock /\ proc[p].cmd = "enable" /\ proc[p].pc = "begin"
    BY <1>5 DEF EnableConf, At, Restorable
  <2>2. b \in Block /\ b.name = proc[p].name /\ live = Blocks
    BY <1>1, <2>1 DEF Finds, FilesTyped, LiveFits
  <2>3. config[proc[p].name] # NoBlock
    BY <1>0, <2>1, FindsCalm
  <2> HIDE DEF b
  <2>4. proc'[p].pc = "awg" /\ proc'[p].block = b /\ proc'[p].cmd = "enable"
    BY <1>1, <2>1, TakesIs
  <2>5. Blocks' = Blocks \union {b}
    BY <1>1, <2>1, <2>2, AppendConf DEF Finds, FilesTyped
  <2>6. LiveFits(proc[p])'
    BY <2>1, <2>2, <2>4, <2>5 DEF LiveFits
  <2>7. OneBlock'
    BY <1>1, <2>1, <2>2, <2>5, InConfIs DEF OneBlock
  <2>8. \A n \in Names : n # proc[p].name => (InConf(n)' => InConf(n))
    BY <2>2, <2>5, InConfIs
  <2> QED
    BY <1>0, <1>1, <2>1, <2>3, <2>6, <2>7, <2>8, CalmWorks
<1> QED
  BY <1>2, <1>3, <1>4, <1>5 DEF EnablePeer

\* cmd_remove_peer: the peer is off everywhere before a file of the client goes.
LEMMA RemoveCalm ==
  ASSUME Inv, Calm, NEW p \in Procs, RemovePeer(p)
  PROVE  Calm'
<1>0. Works(p)
  BY DEF Works
<1>1. Finds(p) /\ AddressesApart /\ OneBlock /\ LiveFits(proc[p]) /\ TypeInv /\ proc[p].pc # "gone" /\ lock = p
      /\ NoProc \notin Procs /\ proc[p].cmd = "remove"
  BY <1>0, FindsCalm DEF Finds, RemovePeer, RemoveBegin, RemoveLive, RemoveConfig, RemoveSaved, At
<1>2. CASE RemoveBegin(p)
  <2>1. UNCHANGED <<conf, live, saved, config, lock>> /\ proc[p].pc = "begin"
    BY <1>2 DEF RemoveBegin, At
  <2>2. live = Blocks
    BY <1>1, <2>1 DEF LiveFits
  <2>3. LiveFits(proc[p])'
    <3>1. CASE Takes(p, "cut", FindPeer(proc[p].name))
      <4>1. proc'[p].pc = "cut"
        BY <1>1, <3>1, TakesIs
      <4> QED
        BY <2>1, <2>2, <4>1, SameConf DEF LiveFits
    <3>2. CASE ~InConf(proc[p].name) /\ saved[proc[p].name] # NoBlock /\ Takes(p, "awg", saved[proc[p].name])
      <4>1. proc'[p].pc = "awg" /\ proc'[p].block = saved[proc[p].name] /\ proc'[p].cmd = "remove"
        BY <1>1, <3>2, TakesIs
      <4>2. saved[proc[p].name] \notin Blocks
        BY <1>1, <3>2, InConfIs DEF Finds, FilesTyped
      <4> QED
        BY <2>1, <2>2, <4>1, <4>2, SameConf DEF LiveFits
    <3>3. CASE Goes(p, "unlink")
      <4>1. proc'[p].pc = "unlink"
        BY <1>1, <3>3, GoesIs
      <4> QED
        BY <2>1, <2>2, <4>1, SameConf DEF LiveFits
    <3> QED
      BY <1>2, <3>1, <3>2, <3>3 DEF RemoveBegin
  <2> QED
    BY <1>0, <1>1, <2>1, <2>3, CalmReads
<1>3. CASE RemoveLive(p)
  <2>1. proc[p].pc = "awg" /\ Goes(p, "unlink") /\ UNCHANGED <<conf, saved, config, lock>> /\ AwgRemove(proc[p].block)
    BY <1>3 DEF RemoveLive, At
  <2>2. proc'[p].pc = "unlink"
    BY <1>1, <2>1, GoesIs
  <2>3. live' = Blocks
    BY <1>1, <2>1 DEF LiveFits, AwgRemove
  <2>4. LiveFits(proc[p])'
    BY <2>1, <2>2, <2>3, SameConf DEF LiveFits
  <2> QED
    BY <1>0, <1>1, <2>1, <2>4, CalmReads
<1>4. CASE RemoveConfig(p)
  <2>1. /\ proc[p].pc = "unlink" /\ Goes(p, "unlink_peer") /\ UNCHANGED <<conf, live, saved, lock>>
        /\ config' = [config EXCEPT ![proc[p].name] = NoBlock]
    BY <1>4 DEF RemoveConfig, At
  <2>2. proc'[p].pc = "unlink_peer"
    BY <1>1, <2>1, GoesIs
  <2>3. ~InConf(proc[p].name) /\ \A n \in Names : n # proc[p].name => config'[n] = config[n]
    BY <1>1, <2>1 DEF Finds, HalfWay, FilesTyped
  <2>4. LiveFits(proc[p])'
    BY <1>1, <2>1, <2>2, SameConf DEF LiveFits
  <2>5. OneBlock' /\ \A n : InConf(n)' <=> InConf(n)
    BY <1>1, <2>1, SameConf DEF OneBlock
  <2> QED
    BY <1>0, <1>1, <2>1, <2>2, <2>3, <2>4, <2>5, CalmWorks
<1>5. CASE RemoveSaved(p)
  <2>1. /\ proc[p].pc = "unlink_peer" /\ Goes(p, "ok") /\ UNCHANGED <<conf, live, config>>
        /\ saved' = [saved EXCEPT ![proc[p].name] = NoBlock]
    BY <1>5 DEF RemoveSaved, At, Ends
  <2>2. LiveFits(proc[p])'
    <3>1. proc'[p].pc = "ok"
      BY <1>1, <2>1, GoesIs
    <3> QED
      BY <3>1, RestsLive DEF Working
  <2>3. /\ ~InConf(proc[p].name) /\ saved'[proc[p].name] = NoBlock
        /\ \A n \in Names : n # proc[p].name => saved'[n] = saved[n]
    BY <1>1, <2>1 DEF Finds, HalfWay, FilesTyped
  <2>4. OneBlock' /\ (\A n : InConf(n)' <=> InConf(n)) /\ live' = Blocks'
    BY <1>1, <2>1, SameConf DEF OneBlock, LiveFits
  <2> QED
    BY <1>0, <1>1, <2>1, <2>2, <2>3, <2>4, CalmWorks
<1> QED
  BY <1>2, <1>3, <1>4, <1>5 DEF RemovePeer

\* A call that comes or goes, or takes the lock.
LEMMA ServeCalm ==
  ASSUME Inv, Calm, NEW p \in Procs,
         \/ \E cmd \in Commands, n \in Names : Request(p, cmd, n)
         \/ Acquire(p) \/ Respond(p)
  PROVE  Calm'
<1>0. TypeInv /\ proc = [q \in Procs |-> proc[q]] /\ Gone.pc = "gone" /\ NoProc \notin Procs
  BY VpnctlAssumption DEF Inv, TypeInv, Gone
<1>1. UNCHANGED <<conf, live, saved, config>>
  BY DEF Request, Acquire, Respond
<1>2. proc[p].pc \notin Working /\ \A q \in Procs : q # p => proc'[q] = proc[q]
  BY <1>0, Turn DEF Request, Acquire, Respond, Working
<1>3. \/ lock' = lock /\ proc'[p].pc \notin Working
      \/ lock = NoProc /\ lock' = p /\ proc'[p].pc = "begin"
  BY <1>0, GoesIs DEF Request, Acquire, Respond, Working
<1>4. LiveFits(proc[p])'
  BY <1>1, <1>3, RestsLive, SameConf DEF Calm, LiveFits
<1>5. \A q \in Procs : LiveFits(proc[q])'
  <2> SUFFICES ASSUME NEW q \in Procs, q # p PROVE LiveFits(proc[q])'
    BY <1>4
  <2> QED
    BY <1>1, <1>2, SameConf DEF Calm, LiveFits
<1>6. \A n, pcs : Busy(n, pcs) /\ pcs \subseteq Working => Busy(n, pcs)'
  BY <1>0, <1>2, <1>3 DEF Busy
<1>7. Whole'
  <2> SUFFICES ASSUME NEW n \in Names, config[n] = NoBlock
               PROVE  /\ InConf(n)' => Busy(n, {"config"})'
                      /\ saved[n] # NoBlock => Busy(n, {"conf", "config", "unlink_peer"})'
    BY <1>1 DEF Whole
  <2>1. /\ InConf(n)' => Busy(n, {"config"})
        /\ saved[n] # NoBlock => Busy(n, {"conf", "config", "unlink_peer"})
    BY <1>1, SameConf DEF Calm, Whole
  <2> QED
    BY <1>6, <2>1 DEF Working
<1>8. OneBlock'
  BY <1>1, SameConf DEF Calm, OneBlock
<1>9. lock' = NoProc => live' = Blocks'
  BY <1>0, <1>1, <1>3, SameConf DEF Calm
<1> QED
  BY <1>5, <1>7, <1>8, <1>9 DEF Calm

\* A boot, and the operator's script, which no vpnctl is at work beside.
LEMMA HostCalm ==
  ASSUME Inv, Calm, Reboot \/ \E n \in Names, a \in Addrs : ScriptAdd(n, a)
  PROVE  Calm'
<1>0. TypeInv /\ Locked /\ Gone.pc = "gone" /\ NoProc \notin Procs
  BY VpnctlAssumption DEF Inv, Gone
<1>1. CASE Reboot
  <2>1. UNCHANGED <<conf, saved, config, proc, lock>> /\ live' = Blocks /\ \A p \in Procs : proc[p] = Gone
    BY <1>1 DEF Reboot
  <2>2. \A p \in Procs : LiveFits(proc[p])'
    BY <1>0, <2>1, RestsLive DEF Working
  <2>3. OneBlock' /\ live' = Blocks'
    BY <2>1, SameConf DEF Calm, OneBlock
  <2>4. \A n, pcs : Busy(n, pcs) => Busy(n, pcs)'
    BY <2>1 DEF Busy
  <2>5. Whole'
    BY <2>1, <2>4, SameConf DEF Calm, Whole
  <2> QED
    BY <2>2, <2>3, <2>5 DEF Calm
<1>2. ASSUME NEW n \in Names, NEW a \in Addrs, ScriptAdd(n, a) PROVE Calm'
  <2> DEFINE b == [name |-> n, addr |-> a]
  <2>1. /\ conf' = Append(conf, b) /\ config' = [config EXCEPT ![n] = b] /\ UNCHANGED <<saved, proc, lock>>
        /\ lock = NoProc /\ saved[n] = NoBlock /\ ~InConf(n) /\ b.addr \notin ConfAddrs /\ AwgSet(b)
    BY <1>2 DEF ScriptAdd
  <2>2. b \in Block /\ b.name = n
    BY DEF Block
  <2> HIDE DEF b
  <2>3. Blocks' = Blocks \union {b}
    BY <1>0, <2>1, <2>2, AppendConf DEF TypeInv, FilesTyped
  <2>4. live' = Blocks'
    BY <2>1, <2>3 DEF Calm, AwgSet, ConfAddrs
  <2>5. b # NoBlock /\ config'[n] = b /\ \A m \in Names : m # n => config'[m] = config[m]
    BY <1>0, <2>1, <2>2, VpnctlAssumption DEF TypeInv, FilesTyped, Block
  <2>6. \A m : m # n => (InConf(m)' <=> InConf(m))
    BY <2>2, <2>3, InConfIs
  <2>7. OneBlock'
    BY <2>1, <2>2, <2>3, InConfIs DEF Calm, OneBlock
  <2>8. Whole'
    BY <1>0, <2>1, <2>5, <2>6 DEF Calm, Whole, Busy
  <2>9. \A p \in Procs : LiveFits(proc[p])'
    BY <1>0, <2>1, RestsLive DEF Locked
  <2> QED
    BY <2>4, <2>7, <2>8, <2>9 DEF Calm
<1> QED
  BY <1>1, <1>2

\* Every step without a fault keeps it.
LEMMA CalmNext == Inv /\ CalmInv /\ [Next]_vars => CalmInv'
<1> SUFFICES ASSUME Inv, CalmInv, [Next]_vars, faults' = 0 PROVE Calm'
  BY DEF CalmInv
<1>0. faults = 0 /\ Calm
  BY FaultsGrow DEF Inv, CalmInv
<1>1. CASE UNCHANGED vars
  <2>1. UNCHANGED <<conf, live, saved, config, proc, lock>>
    BY <1>1 DEF vars
  <2>2. \A p \in Procs : LiveFits(proc[p])'
    BY <1>0, <2>1, SameConf DEF Calm, LiveFits
  <2>3. \A n, pcs : Busy(n, pcs) => Busy(n, pcs)'
    BY <2>1 DEF Busy
  <2>4. Whole' /\ OneBlock' /\ Blocks' = Blocks
    BY <1>0, <2>1, <2>3, SameConf DEF Calm, Whole, OneBlock
  <2> QED
    BY <1>0, <2>1, <2>2, <2>4 DEF Calm
<1>2. \A p \in Procs : ~AwgError(p) /\ ~Kill(p)
  BY <1>0 DEF AwgError, Kill, Fault
<1> QED
  BY <1>0, <1>1, <1>2, CreateCalm, DisableCalm, EnableCalm, RemoveCalm, ServeCalm, HostCalm DEF Next

\* Both invariants hold always.
LEMMA BothHold == Spec => [](Inv /\ CalmInv)
BY InitInv, InitCalm, Invariant, CalmNext, PTL DEF Spec

-----------------------------------------------------------------------------
(* One peer for each client, and one more for each fault. *)

\* A client that is allowed a peer: one whose config is there or is being written.
Allowed(n) == config[n] # NoBlock \/ Busy(n, {"config"})

\* The others have a peer for faults only.
PeersFit(n) ==
  /\ IsFiniteSet(PeersOf(n))
  /\ Cardinality(PeersOf(n)) <= faults + (IF Allowed(n) THEN 1 ELSE 0)

PeersInv == \A n \in Names : PeersFit(n)

\* A step with no fault that leaves a client's blocks, or all it had of them.
LEMMA FewerPeers ==
  ASSUME TypeInv, NEW n \in Names, PeersFit(n), faults' \in Nat, faults <= faults',
         PeersOf(n)' \subseteq PeersOf(n), Allowed(n) => Allowed(n)' \/ faults' >= faults + 1
  PROVE  PeersFit(n)'
<1>1. IsFiniteSet(PeersOf(n)') /\ Cardinality(PeersOf(n)') <= Cardinality(PeersOf(n))
  BY FS_Subset DEF PeersFit
<1>2. Cardinality(PeersOf(n)) \in Nat /\ Cardinality(PeersOf(n)') \in Nat
  BY <1>1, FS_CardinalityType DEF PeersFit
<1>3. faults \in Nat
  BY DEF TypeInv, FilesTyped
<1> QED
  BY <1>1, <1>2, <1>3 DEF PeersFit

\* A block that is added to a client that is allowed it.
LEMMA OneMorePeer ==
  ASSUME TypeInv, NEW n \in Names, PeersFit(n), NEW b, PeersOf(n)' = PeersOf(n) \union {b},
         faults' = faults, Allowed(n)', ~Allowed(n) \/ PeersOf(n) = {}
  PROVE  PeersFit(n)'
<1>0. IsFiniteSet(PeersOf(n))
  BY DEF PeersFit
<1>1. IsFiniteSet(PeersOf(n)') /\ Cardinality(PeersOf(n)') \in Nat
      /\ Cardinality(PeersOf(n)') <= Cardinality(PeersOf(n)) + 1
  <2>1. IsFiniteSet(PeersOf(n) \union {b})
        /\ (Cardinality(PeersOf(n) \union {b}) = Cardinality(PeersOf(n))
             \/ Cardinality(PeersOf(n) \union {b}) = Cardinality(PeersOf(n)) + 1)
    BY <1>0, FS_AddElement, Zenon
  <2>2. Cardinality(PeersOf(n)) \in Nat
    BY <1>0, FS_CardinalityType, Zenon
  <2> QED
    BY <2>1, <2>2
<1>2. Cardinality(PeersOf(n)) \in Nat /\ (PeersOf(n) = {} => Cardinality(PeersOf(n)) = 0)
  BY FS_CardinalityType, FS_EmptySet DEF PeersFit
<1>3. faults \in Nat
  BY DEF TypeInv, FilesTyped
<1> QED
  BY <1>1, <1>2, <1>3 DEF PeersFit

\* Without a fault a client stays allowed its peer, until its config is deleted.
LEMMA StaysAllowed ==
  ASSUME Inv, Next, NEW n \in Names, Allowed(n), faults' = faults,
         config[n] # NoBlock => config'[n] # NoBlock,
         \A p \in Procs : ~CreateConfig(p)
  PROVE  Allowed(n)'
<1>0. TypeInv /\ Locked /\ proc = [q \in Procs |-> proc[q]] /\ faults \in Nat /\ NoProc \notin Procs
      /\ Gone.pc = "gone"
  BY VpnctlAssumption DEF Inv, TypeInv, FilesTyped, Gone
<1>1. CASE config[n] # NoBlock
  BY <1>1 DEF Allowed
<1>2. CASE Busy(n, {"config"})
  <2>1. lock \in Procs /\ proc[lock].pc = "config" /\ proc[lock].name = n /\ proc[lock].cmd = "create"
    BY <1>0, <1>2, Asked DEF Busy, TypeInv, CallOK
  <2>2. ASSUME NEW p \in Procs, Works(p) \/ AwgError(p) PROVE FALSE
    <3>1. p = lock
      BY <1>0, <2>2, WorkStep DEF Locked
    <3>2. ~CreateUndone(p) /\ ~AwgError(p)
      BY <1>0 DEF CreateUndone, AwgError, Fault
    <3> QED
      BY <2>1, <2>2, <3>1, <3>2
         DEF Works, CreatePeer, CreateExisting, CreateLive, CreateFull, CreateSave, CreateConf, DisablePeer,
             DisableNothing, DisableSave, DisableLive, Cut, EnablePeer, EnablePresent, EnableConf, EnableRefused,
             EnableLive, RemovePeer, RemoveBegin, RemoveLive, RemoveConfig, RemoveSaved, At
  <2>3. ASSUME NEW p \in Procs, \E cmd \in Commands, m \in Names : Request(p, cmd, m) PROVE Allowed(n)'
    <3>1. p # lock
      BY <1>0, <2>1, <2>3 DEF Request
    <3> QED
      BY <1>0, <2>1, <2>3, <3>1 DEF Request, Allowed, Busy
  <2>4. \A p \in Procs : ~Acquire(p) /\ ~Kill(p)
    BY <1>0, <2>1 DEF Acquire, Kill, Fault
  <2>5. ASSUME NEW p \in Procs, Respond(p) PROVE Allowed(n)'
    <3>1. p # lock
      BY <2>1, <2>5 DEF Respond
    <3> QED
      BY <1>0, <2>1, <2>5, <3>1 DEF Respond, Allowed, Busy
  <2>6. CASE UNCHANGED <<proc, lock>>
    BY <2>1, <2>6 DEF Allowed, Busy
  <2> QED
    BY <2>2, <2>3, <2>4, <2>5, <2>6 DEF Next, Works, Reboot, ScriptAdd
<1> QED
  BY <1>1, <1>2 DEF Allowed

\* A step that leaves awg1.conf, or takes blocks out of it.
LEMMA NoMorePeers ==
  ASSUME Inv, PeersInv, Next, Blocks' \subseteq Blocks, config' = config, \A p \in Procs : ~CreateConfig(p)
  PROVE  PeersInv'
<1> SUFFICES ASSUME NEW n \in Names PROVE PeersFit(n)'
  BY DEF PeersInv
<1>1. TypeInv /\ faults \in Nat /\ (faults' = faults \/ faults' = faults + 1)
  BY DEF Inv, TypeInv, FilesTyped, Next, Request, Acquire, Respond, Reboot, ScriptAdd, Kill, AwgError, Fault, Cut,
         CreatePeer, CreateExisting, CreateLive, CreateFull, CreateSave, CreateConf, CreateConfig, CreateUndone,
         DisablePeer, DisableNothing, DisableSave, DisableLive, EnablePeer, EnablePresent, EnableConf,
         EnableRefused, EnableLive, RemovePeer, RemoveBegin, RemoveLive, RemoveConfig, RemoveSaved
<1>2. PeersOf(n)' \subseteq PeersOf(n)
  BY DEF PeersOf
<1>3. faults' = faults /\ Allowed(n) => Allowed(n)'
  BY StaysAllowed
<1>4. PeersFit(n) /\ faults' \in Nat /\ faults <= faults' /\ (Allowed(n) => Allowed(n)' \/ faults' >= faults + 1)
  BY <1>1, <1>3 DEF PeersInv
<1> QED
  BY <1>1, <1>2, <1>4, FewerPeers

\* A block added to one client, which has none or is allowed one only now.
LEMMA AddsPeer ==
  ASSUME Inv, PeersInv, Next, NEW n \in Names, NEW b \in Block, b.name = n, Blocks' = Blocks \union {b},
         faults' = faults, \A p \in Procs : ~CreateConfig(p),
         \A m \in Names : config[m] # NoBlock => config'[m] # NoBlock,
         PeersFit(n)'
  PROVE  PeersInv'
<1> SUFFICES ASSUME NEW m \in Names, m # n PROVE PeersFit(m)'
  BY DEF PeersInv
<1>1. PeersOf(m)' = PeersOf(m)
  BY DEF PeersOf
<1>2. Allowed(m) => Allowed(m)'
  BY StaysAllowed
<1>3. faults \in Nat /\ TypeInv /\ PeersFit(m)
  BY DEF Inv, TypeInv, FilesTyped, PeersInv
<1> QED
  BY <1>1, <1>2, <1>3, FewerPeers

\* Every step keeps it: a create or an enable without a fault in its past finds no block
\* of the client, and a fault pays for the one that is left behind.
LEMMA PeersNext == Inv /\ CalmInv /\ PeersInv /\ [Next]_vars => PeersInv'
<1> SUFFICES ASSUME Inv, CalmInv, PeersInv, [Next]_vars PROVE PeersInv'
  OBVIOUS
<1>0. /\ TypeInv /\ Locked /\ FilesInv /\ faults \in Nat /\ conf \in Seq(Block)
      /\ NoProc \notin Procs /\ NoBlock \notin Block
      /\ config \in [Names -> Block \union {NoBlock}] /\ saved \in [Names -> Block \union {NoBlock}]
  BY VpnctlAssumption DEF Inv, TypeInv, FilesTyped, Block
<1>1. \A n \in Names : ~InConf(n) => PeersOf(n) = {}
  BY InConfIs DEF PeersOf
<1>2. ASSUME NEW p \in Procs, CreateConf(p) PROVE PeersInv'
  <2>1. Works(p) /\ Next
    BY <1>2 DEF Works, CreatePeer, Next
  <2>2. lock = p /\ proc[p].pc # "gone" /\ Finds(p)
    BY <1>0, <2>1, WorkStep, FindsIt DEF Locked, Working
  <2>3. PICK n \in Names, b \in Block :
          /\ n = proc[p].name /\ b.name = n /\ config[n] = NoBlock /\ proc[p].pc = "conf"
          /\ conf' = Append(conf, b) /\ UNCHANGED <<config, lock, faults>> /\ Goes(p, "config")
    BY <1>2, <2>2 DEF CreateConf, At, Finds, HalfWay
  <2>4. proc'[p].pc = "config" /\ proc'[p].name = n
    BY <1>0, <2>2, <2>3, GoesIs
  <2>5. Blocks' = Blocks \union {b}
    BY <1>0, <2>3, AppendConf
  <2>6. PeersOf(n)' = PeersOf(n) \union {b}
    BY <2>3, <2>5 DEF PeersOf
  <2>7. ~Allowed(n) /\ Allowed(n)'
    BY <2>2, <2>3, <2>4 DEF Allowed, Busy
  <2>8. PeersFit(n)'
    BY <1>0, <2>3, <2>6, <2>7, OneMorePeer DEF PeersInv
  <2>9. \A q \in Procs : ~CreateConfig(q)
    <3>1. ASSUME NEW q \in Procs, CreateConfig(q) PROVE FALSE
      <4>1. proc[q].pc = "config"
        BY <3>1 DEF CreateConfig, At
      <4> QED
        BY <1>0, <2>2, <2>3, <4>1 DEF Locked, Working
    <3> QED
      BY <3>1
  <2> QED
    BY <2>1, <2>3, <2>5, <2>8, <2>9, AddsPeer
<1>3. ASSUME NEW p \in Procs, EnableConf(p) PROVE PeersInv'
  <2>1. Works(p) /\ Next
    BY <1>3 DEF Works, EnablePeer, Next
  <2>2. lock = p /\ proc[p].pc # "gone" /\ Finds(p)
    BY <1>0, <2>1, WorkStep, FindsIt DEF Locked, Working
  <2>3. PICK n \in Names, b \in Block :
          /\ n = proc[p].name /\ b = saved[n] /\ b.name = n /\ ~InConf(n) /\ proc[p].pc = "begin"
          /\ conf' = Append(conf, b) /\ UNCHANGED <<config, lock, faults>>
    BY <1>3, <2>2 DEF EnableConf, Restorable, At, Finds, FilesTyped
  <2>4. Blocks' = Blocks \union {b}
    BY <1>0, <2>3, AppendConf
  <2>5. PeersOf(n) = {} /\ PeersOf(n)' = {b}
    BY <1>1, <2>3, <2>4 DEF PeersOf
  <2>6. config[n] # NoBlock \/ faults >= 1
    <3>1. CASE faults = 0 /\ config[n] = NoBlock
      <4>1. Busy(n, {"conf", "config", "unlink_peer"})
        BY <1>0, <2>3, <3>1 DEF CalmInv, Calm, Whole
      <4> QED
        BY <2>2, <2>3, <4>1 DEF Busy
    <3> QED
      BY <1>0, <3>1
  <2>7. PeersFit(n)'
    <3>1. IsFiniteSet(PeersOf(n)') /\ Cardinality(PeersOf(n)') = 1
      BY <2>5, FS_Singleton
    <3>2. config'[n] # NoBlock => Allowed(n)'
      BY DEF Allowed
    <3> QED
      BY <1>0, <2>3, <2>6, <3>1, <3>2 DEF PeersFit
  <2>8. \A q \in Procs : ~CreateConfig(q)
    <3>1. ASSUME NEW q \in Procs, CreateConfig(q) PROVE FALSE
      <4>1. proc[q].pc = "config"
        BY <3>1 DEF CreateConfig, At
      <4> QED
        BY <1>0, <2>2, <2>3, <4>1 DEF Locked, Working
    <3> QED
      BY <3>1
  <2> QED
    BY <2>1, <2>3, <2>4, <2>7, <2>8, AddsPeer
<1>4. ASSUME NEW n \in Names, NEW a \in Addrs, ScriptAdd(n, a) PROVE PeersInv'
  <2> DEFINE b == [name |-> n, addr |-> a]
  <2>1. /\ ~InConf(n) /\ conf' = Append(conf, b) /\ config' = [config EXCEPT ![n] = b]
        /\ UNCHANGED <<lock, faults>> /\ lock = NoProc /\ Next
    BY <1>4 DEF ScriptAdd, Next
  <2>2. b \in Block /\ b.name = n
    BY DEF Block
  <2> HIDE DEF b
  <2>3. Blocks' = Blocks \union {b}
    BY <1>0, <2>1, <2>2, AppendConf
  <2>4. PeersOf(n) = {} /\ PeersOf(n)' = PeersOf(n) \union {b}
    BY <1>1, <2>1, <2>2, <2>3 DEF PeersOf
  <2>5. config'[n] # NoBlock /\ \A m \in Names : m # n => config'[m] = config[m]
    BY <1>0, <2>1, <2>2
  <2>6. PeersFit(n)'
    BY <1>0, <2>1, <2>4, <2>5, OneMorePeer DEF PeersInv, Allowed
  <2>7. \A q \in Procs : ~CreateConfig(q)
    <3>1. ASSUME NEW q \in Procs, CreateConfig(q) PROVE FALSE
      <4>1. proc[q].pc = "config"
        BY <3>1 DEF CreateConfig, At
      <4> QED
        BY <1>0, <2>1, <4>1 DEF Locked, Working
    <3> QED
      BY <3>1
  <2> QED
    BY <2>1, <2>2, <2>3, <2>5, <2>6, <2>7, AddsPeer
<1>5. ASSUME NEW p \in Procs, CreateConfig(p) PROVE PeersInv'
  <2>1. Works(p) /\ proc[p].pc = "config" /\ UNCHANGED <<conf, faults>>
        /\ config' = [config EXCEPT ![proc[p].name] = proc[p].block]
    BY <1>5 DEF Works, CreatePeer, CreateConfig, At
  <2>2. lock = p /\ Finds(p)
    BY <1>0, <2>1, WorkStep, FindsIt DEF Locked, Working
  <2>3. proc[p].block \in Block /\ Blocks' = Blocks
    BY <2>1, <2>2, SameConf DEF Finds
  <2> SUFFICES ASSUME NEW n \in Names PROVE PeersFit(n)'
    BY DEF PeersInv
  <2>4. PeersOf(n)' = PeersOf(n)
    BY <2>3 DEF PeersOf
  <2>5. Allowed(n) => Allowed(n)'
    BY <1>0, <2>1, <2>2, <2>3 DEF Allowed, Busy
  <2> QED
    BY <1>0, <2>1, <2>4, <2>5, FewerPeers DEF PeersInv
<1>6. ASSUME NEW p \in Procs, RemoveConfig(p) PROVE PeersInv'
  <2>1. Works(p) /\ Next /\ proc[p].pc = "unlink" /\ UNCHANGED <<conf, faults>>
        /\ config' = [config EXCEPT ![proc[p].name] = NoBlock]
    BY <1>6 DEF Works, RemovePeer, RemoveConfig, At, Next
  <2>2. lock = p /\ ~InConf(proc[p].name) /\ Finds(p)
    BY <1>0, <2>1, WorkStep, FindsIt DEF Locked, Working, Finds, HalfWay
  <2>3. \A q \in Procs : ~CreateConfig(q)
    <3>1. ASSUME NEW q \in Procs, CreateConfig(q) PROVE FALSE
      <4>1. proc[q].pc = "config"
        BY <3>1 DEF CreateConfig, At
      <4> QED
        BY <1>0, <2>1, <2>2, <4>1 DEF Locked, Working
    <3> QED
      BY <3>1
  <2> SUFFICES ASSUME NEW n \in Names PROVE PeersFit(n)'
    BY DEF PeersInv
  <2>4. PeersOf(n)' = PeersOf(n)
    BY <2>1, SameConf DEF PeersOf
  <2>5. CASE n = proc[p].name
    <3>1. PeersOf(n)' = {}
      BY <1>1, <2>2, <2>4, <2>5
    <3>2. IsFiniteSet(PeersOf(n)') /\ Cardinality(PeersOf(n)') = 0
      BY <3>1, FS_EmptySet
    <3> QED
      BY <1>0, <2>1, <3>2 DEF PeersFit
  <2>6. CASE n # proc[p].name
    <3>1. config'[n] = config[n]
      BY <1>0, <2>1, <2>6
    <3>2. Allowed(n) => Allowed(n)'
      BY <2>1, <2>3, <3>1, StaysAllowed
    <3> QED
      BY <1>0, <2>1, <2>4, <3>2, FewerPeers DEF PeersInv
  <2> QED
    BY <2>5, <2>6
<1>7. ASSUME NEW p \in Procs, Cut(p) PROVE PeersInv'
  <2>1. Blocks' \subseteq Blocks /\ config' = config /\ Next
    BY <1>0, <1>7, CutConf DEF Cut, Next
  <2>2. Works(p) /\ proc[p].pc = "cut"
    BY <1>7 DEF Works, Cut
  <2>3. \A q \in Procs : ~CreateConfig(q)
    <3>1. ASSUME NEW q \in Procs, CreateConfig(q) PROVE FALSE
      <4>1. proc[q].pc = "config"
        BY <3>1 DEF CreateConfig, At
      <4> QED
        BY <1>0, <2>2, <4>1 DEF Locked, Working
    <3> QED
      BY <3>1
  <2> QED
    BY <2>1, <2>3, NoMorePeers
<1>8. CASE UNCHANGED <<conf, config>> /\ Next /\ \A p \in Procs : ~CreateConfig(p)
  BY <1>8, SameConf, NoMorePeers
<1>9. CASE UNCHANGED vars
  <2> SUFFICES ASSUME NEW n \in Names PROVE PeersFit(n)'
    BY DEF PeersInv
  <2>1. PeersOf(n)' = PeersOf(n) /\ (Allowed(n) => Allowed(n)')
    BY <1>9, SameConf DEF vars, PeersOf, Allowed, Busy
  <2> QED
    BY <1>0, <1>9, <2>1, FewerPeers DEF PeersInv, vars
<1> QED
  BY <1>2, <1>3, <1>4, <1>5, <1>6, <1>7, <1>8, <1>9
     DEF Next, Request, Acquire, Respond, Reboot, Kill, AwgError,
         CreatePeer, CreateExisting, CreateLive, CreateFull, CreateSave, CreateUndone,
         DisablePeer, DisableNothing, DisableSave, DisableLive, EnablePeer, EnablePresent,
         EnableRefused, EnableLive, RemovePeer, RemoveBegin, RemoveLive, RemoveSaved

\* A client's calls make one peer, however they repeat and overlap, and each further one
\* took a fault: a create that stopped after it wrote awg1.conf and before the config.
THEOREM OnePeer == Spec => []OnePeerEach
<1>1. Init => PeersInv
  <2> SUFFICES ASSUME Init, NEW n \in Names PROVE PeersFit(n)
    BY DEF PeersInv
  <2>1. PeersOf(n) = {}
    BY DEF Init, Blocks, PeersOf
  <2> QED
    BY <2>1, FS_EmptySet DEF Init, PeersFit
<1>2. Inv /\ PeersInv => OnePeerEach
  <2> SUFFICES ASSUME Inv, NEW n \in Names, PeersFit(n) PROVE Cardinality(PeersOf(n)) <= 1 + faults
    BY DEF PeersInv, OnePeerEach
  <2>1. faults \in Nat /\ Cardinality(PeersOf(n)) \in Nat
    BY FS_CardinalityType DEF Inv, TypeInv, FilesTyped, PeersFit
  <2> QED
    BY <2>1 DEF PeersFit
<1> QED
  BY <1>1, <1>2, BothHold, PeersNext, PTL DEF Spec

\* With no call in progress, and no fault so far, a reboot changes nothing for anybody.
THEOREM RebootChangesNothing == Spec => []LiveIsConf
<1>1. CalmInv => LiveIsConf
  BY DEF CalmInv, Calm, LiveIsConf
<1> QED
  BY <1>1, BothHold, PTL

\* Until the first fault a disable or a remove that reports success has taken the client
\* out of awg1.conf and off the interface.
THEOREM OffIsOffAtFirst == Spec => OffWithoutFault
<1>1. Inv /\ CalmInv /\ [Next]_vars => [faults = 0 => SwitchesOff]_vars
  <2> SUFFICES ASSUME Inv, Calm, Next, NEW p \in Procs, NEW cmd \in {"disable", "remove"}, Answers(p, cmd),
                      NEW b \in live' \union Blocks', b.name = proc[p].name
               PROVE  FALSE
    BY DEF CalmInv, SwitchesOff
  <2>0. Works(p) /\ proc[p].cmd = cmd /\ proc'[p].pc = "ok"
    BY OwnStep DEF Answers
  <2>1. Finds(p) /\ LiveFits(proc[p]) /\ TypeInv /\ proc[p].pc # "gone"
    BY <2>0, FindsCalm DEF Finds
  <2>2. DisableNothing(p) \/ DisableLive(p) \/ RemoveSaved(p)
    <3>1. \A pc : Goes(p, pc) => pc = "ok"
      BY <2>0, <2>1, GoesIs
    <3>2. \A pc, x : Takes(p, pc, x) => pc = "ok"
      BY <2>0, <2>1, TakesIs
    <3>3. ~CreatePeer(p) /\ ~EnablePeer(p)
      BY <2>0, <3>1
         DEF CreatePeer, CreateExisting, CreateLive, CreateFull, CreateSave, CreateConf, CreateConfig, CreateUndone,
             EnablePeer, EnablePresent, EnableConf, EnableRefused, EnableLive, At
    <3>4. ~DisableSave(p) /\ ~Cut(p)
      BY <3>1, <3>2 DEF DisableSave, Cut
    <3>5. ~RemoveBegin(p) /\ ~RemoveLive(p) /\ ~RemoveConfig(p)
      BY <3>1, <3>2 DEF RemoveBegin, RemoveLive, RemoveConfig
    <3> QED
      BY <2>0, <3>3, <3>4, <3>5 DEF Works, DisablePeer, RemovePeer
  <2>3. Blocks' = Blocks /\ live' = Blocks /\ ~InConf(proc[p].name)
    <3>1. CASE DisableNothing(p)
      BY <2>1, <3>1, SameConf DEF DisableNothing, At, LiveFits
    <3>2. CASE DisableLive(p)
      BY <2>1, <3>2, SameConf DEF DisableLive, AwgRemove, At, LiveFits, Finds, HalfWay
    <3>3. CASE RemoveSaved(p)
      BY <2>1, <3>3, SameConf DEF RemoveSaved, At, LiveFits, Finds, HalfWay
    <3> QED
      BY <2>2, <3>1, <3>2, <3>3
  <2> QED
    BY <2>3, InConfIs
<1>2. Spec => [][faults = 0 => SwitchesOff]_vars
  BY <1>1, BothHold, PTL DEF Spec
<1> QED
  BY <1>2 DEF OffWithoutFault

-----------------------------------------------------------------------------
(* vpnctl implements PeerServer, until the first fault. *)

\* What the bot sees of a client: on when it is in awg1.conf, off when it has a config only.
LEMMA PeerIs ==
  ASSUME NEW n \in Names
  PROVE  /\ InConf(n) => ServerPeer[n] = "on"
         /\ ~InConf(n) /\ config[n] # NoBlock => ServerPeer[n] = "off"
         /\ ~InConf(n) /\ config[n] = NoBlock => ServerPeer[n] = "none"
BY DEF ServerPeer

\* A step that touches one client's files.
LEMMA PeerMoves ==
  ASSUME NEW n \in Names, NEW x,
         \A m \in Names : m # n => (InConf(m)' <=> InConf(m)) /\ config'[m] = config[m],
         x = IF InConf(n)' THEN "on" ELSE IF config'[n] # NoBlock THEN "off" ELSE "none"
  PROVE  ServerPeer' = [ServerPeer EXCEPT ![n] = x]
BY DEF ServerPeer

\* A step that writes neither awg1.conf nor a config.
LEMMA SamePeers ==
  ASSUME UNCHANGED <<conf, config>>
  PROVE  ServerPeer' = ServerPeer
BY SameConf DEF ServerPeer

\* What the bot sees of a call.
LEMMA CallIs ==
  ASSUME TypeInv, NEW p \in Procs, proc[p].pc # "gone"
  PROVE  /\ ServerCall[p] = [phase |-> Phase(p), cmd |-> proc[p].cmd, name |-> proc[p].name]
         /\ ServerCall[p].phase = Phase(p) /\ ServerCall[p].cmd = proc[p].cmd
         /\ ServerCall[p].name = proc[p].name
<1>1. ServerCall[p] = [phase |-> Phase(p), cmd |-> proc[p].cmd, name |-> proc[p].name]
  BY Asked DEF ServerCall
<1> QED
  BY ONLY <1>1

\* A step of a process is seen as a change of its call's phase.
LEMMA CallMoves ==
  ASSUME TypeInv, NEW p \in Procs, proc[p].pc # "gone", NEW pc, pc # "gone", NEW b,
         Takes(p, pc, b) \/ (Goes(p, pc) /\ b = proc[p].block)
  PROVE  ServerCall' = [ServerCall EXCEPT ![p].phase = Phase(p)']
<1> DEFINE r == [phase |-> Phase(p), cmd |-> proc[p].cmd, name |-> proc[p].name]
<1>1. /\ proc'[p] = Call(p, pc, b)
      /\ \A q \in Procs : q # p => proc'[q] = proc[q]
  BY Turn
<1>2. proc'[p] # Gone /\ proc'[p].cmd = proc[p].cmd /\ proc'[p].name = proc[p].name
  <2>1. Gone.pc = "gone" /\ Call(p, pc, b).pc = pc
    BY DEF Gone, Call
  <2> QED
    BY <1>1, <2>1 DEF Call
<1>3. ServerCall[p] = r
  BY CallIs
<1>4. ServerCall' = [ServerCall EXCEPT ![p] = [phase |-> Phase(p)', cmd |-> proc[p].cmd, name |-> proc[p].name]]
  <2>1. \A q \in Procs : q # p => Phase(q)' = Phase(q)
    BY <1>1 DEF Phase
  <2> QED
    BY <1>1, <1>2, <2>1 DEF ServerCall
<1>5. [r EXCEPT !.phase = Phase(p)'] = [phase |-> Phase(p)', cmd |-> proc[p].cmd, name |-> proc[p].name]
  OBVIOUS
<1> HIDE DEF r
<1>6. [ServerCall EXCEPT ![p].phase = Phase(p)'] = [ServerCall EXCEPT ![p] = [r EXCEPT !.phase = Phase(p)']]
  BY <1>3 DEF ServerCall
<1> QED
  BY <1>4, <1>5, <1>6

\* A step that the bot does not see.
LEMMA Unseen ==
  ASSUME TypeInv, NEW p \in Procs, proc[p].pc # "gone", NEW pc, pc # "gone", NEW b,
         Takes(p, pc, b) \/ (Goes(p, pc) /\ b = proc[p].block), Phase(p)' = Phase(p)
  PROVE  ServerCall' = ServerCall
<1>1. ServerCall' = [ServerCall EXCEPT ![p].phase = Phase(p)]
  BY CallMoves
<1>2. ServerCall[p] = [phase |-> Phase(p), cmd |-> proc[p].cmd, name |-> proc[p].name]
  BY CallIs
<1> QED
  BY <1>1, <1>2 DEF ServerCall

\* The moment at which a call acts.
LEMMA Acts ==
  ASSUME TypeInv, NEW p \in Procs, proc[p].pc # "gone", NEW pc, pc # "gone", NEW b,
         Takes(p, pc, b) \/ (Goes(p, pc) /\ b = proc[p].block), Phase(p) = "asked", Phase(p)' = "done",
         proc[p].cmd = "enable" => ServerPeer[proc[p].name] # "none",
         ServerPeer' = [ServerPeer EXCEPT ![proc[p].name] = Registry!After(proc[p].cmd, ServerPeer[proc[p].name])]
  PROVE  Registry!Next
<1>1. ServerCall' = [ServerCall EXCEPT ![p].phase = "done"]
  BY CallMoves
<1>2. /\ ServerCall[p].phase = "asked" /\ ServerCall[p].cmd = proc[p].cmd
      /\ ServerCall[p].name = proc[p].name
  BY CallIs
<1>3. Registry!Act(p)
  BY <1>1, <1>2 DEF Registry!Act, Registry!Moves
<1> QED
  BY <1>3 DEF Registry!Next

\* A call that is refused fails and leaves everything as it was.
LEMMA Fails ==
  ASSUME TypeInv, NEW p \in Procs, proc[p].pc # "gone", Ends(p, "error"), Phase(p) = "asked",
         UNCHANGED <<conf, config>>
  PROVE  Registry!Next
<1>1. Goes(p, "error") /\ proc'[p].pc = "error"
  BY GoesIs DEF Ends
<1>2. Phase(p)' = "failed"
  BY <1>1 DEF Phase
<1>3. ServerCall' = [ServerCall EXCEPT ![p].phase = "failed"]
  BY <1>1, <1>2, CallMoves
<1>4. ServerCall[p].phase = "asked"
  BY CallIs
<1>5. Registry!Fail(p)
  BY <1>3, <1>4, SamePeers DEF Registry!Fail, Registry!Moves
<1> QED
  BY <1>5 DEF Registry!Next

\* cmd_create_peer acts when awg1.conf gets the block, or when it finds the client's config.
LEMMA CreateActs ==
  ASSUME Inv, Calm, NEW p \in Procs, CreatePeer(p), faults' = 0
  PROVE  Registry!Next \/ UNCHANGED <<ServerPeer, ServerCall>>
<1>0. Works(p)
  BY DEF Works
<1>n. PICK n : n = proc[p].name
  OBVIOUS
<1>1. /\ Finds(p) /\ TypeInv /\ proc[p].pc # "gone" /\ faults \in Nat /\ n \in Names /\ n = proc[p].name
      /\ config[n] = NoBlock /\ InConf(n) => proc[p].pc = "config"
  BY <1>0, <1>n, FindsCalm DEF Finds, FilesTyped
<1>2. CASE CreateExisting(p)
  <2>1. /\ proc[p].pc = "begin" /\ proc[p].cmd = "create" /\ config[n] # NoBlock
        /\ Goes(p, "ok") /\ UNCHANGED <<conf, config>>
    BY <1>1, <1>2 DEF CreateExisting, At, Ends
  <2>2. Phase(p) = "asked" /\ Phase(p)' = "done"
    <3>1. proc'[p].pc = "ok"
      BY <1>1, <2>1, GoesIs
    <3> QED
      BY <2>1, <3>1 DEF Phase
  <2>3. ServerPeer' = [ServerPeer EXCEPT ![n] = Registry!After("create", ServerPeer[n])]
    <3>1. ServerPeer[n] \in {"on", "off"}
      BY <1>1, <2>1, PeerIs
    <3>2. Registry!After("create", ServerPeer[n]) = ServerPeer[n]
      BY <3>1 DEF Registry!After
    <3>3. ServerPeer' = ServerPeer
      BY <2>1, SamePeers
    <3> QED
      BY <3>2, <3>3 DEF ServerPeer
  <2> QED
    BY <1>1, <2>1, <2>2, <2>3, Acts
<1>3. CASE CreateLive(p) \/ CreateSave(p)
  <2>1. PICK pc \in {"save", "conf"} : Goes(p, pc) \/ \E b : Takes(p, pc, b)
    BY <1>3 DEF CreateLive, CreateSave
  <2>2. Phase(p) = "asked" /\ UNCHANGED <<conf, config>>
    BY <1>3 DEF CreateLive, CreateSave, At, Phase
  <2>3. proc'[p].pc = pc
    BY <1>1, <2>1, GoesIs, TakesIs
  <2>4. Phase(p)' = "asked"
    BY <2>3 DEF Phase
  <2> QED
    BY <1>1, <2>1, <2>2, <2>4, Unseen, SamePeers
<1>4. CASE CreateFull(p)
  BY <1>1, <1>4, Fails DEF CreateFull, At, Phase
<1>5. CASE CreateConf(p)
  <2>1. /\ proc[p].pc = "conf" /\ proc[p].cmd = "create" /\ Goes(p, "config") /\ UNCHANGED config
        /\ conf' = Append(conf, proc[p].block)
    BY <1>5 DEF CreateConf, At
  <2>2. proc[p].block \in Block /\ proc[p].block.name = n /\ config[n] = NoBlock /\ ~InConf(n)
    BY <1>1, <2>1 DEF Finds, HalfWay
  <2>3. Blocks' = Blocks \union {proc[p].block}
    BY <1>1, <2>1, <2>2, AppendConf DEF Finds, FilesTyped
  <2>4. InConf(n)' /\ \A m \in Names : m # n => (InConf(m)' <=> InConf(m))
    BY <1>1, <2>2, <2>3, InConfIs
  <2>5. ServerPeer' = [ServerPeer EXCEPT ![n] = "on"]
    BY <1>1, <2>1, <2>4, PeerMoves
  <2>6. Registry!After("create", ServerPeer[n]) = "on"
    BY <1>1, <2>2, PeerIs DEF Registry!After
  <2>7. Phase(p) = "asked" /\ Phase(p)' = "done"
    <3>1. proc'[p].pc = "config"
      BY <1>1, <2>1, GoesIs
    <3> QED
      BY <2>1, <3>1 DEF Phase
  <2> QED
    BY <1>1, <2>1, <2>5, <2>6, <2>7, Acts
<1>6. CASE CreateConfig(p)
  <2>1. /\ proc[p].pc = "config" /\ Goes(p, "ok") /\ UNCHANGED conf
        /\ config' = [config EXCEPT ![n] = proc[p].block]
    BY <1>1, <1>6 DEF CreateConfig, At, Ends
  <2>2. InConf(n)
    BY <1>1, <2>1, InConfIs DEF Finds, HalfWay
  <2>3. /\ \A m : InConf(m)' <=> InConf(m)
        /\ \A m \in Names : m # n => config'[m] = config[m]
    BY <1>1, <2>1, SameConf DEF Finds, FilesTyped
  <2>4. ServerPeer' = [ServerPeer EXCEPT ![n] = "on"]
    BY <1>1, <2>2, <2>3, PeerMoves
  <2>5. ServerPeer' = ServerPeer
    BY <1>1, <2>2, <2>4, PeerIs DEF ServerPeer
  <2>6. Phase(p) = "done" /\ Phase(p)' = "done"
    <3>1. proc'[p].pc = "ok"
      BY <1>1, <2>1, GoesIs
    <3> QED
      BY <2>1, <3>1 DEF Phase
  <2> QED
    BY <1>1, <2>1, <2>5, <2>6, Unseen
<1>7. ~CreateUndone(p)
  BY <1>1 DEF CreateUndone, Fault
<1> QED
  BY <1>2, <1>3, <1>4, <1>5, <1>6, <1>7 DEF CreatePeer

\* cmd_disable_peer acts when awg1.conf loses the block, or when it finds none; the cut of
\* cmd_remove_peer switches the client off first.
LEMMA DisableActs ==
  ASSUME Inv, Calm, NEW p \in Procs, DisablePeer(p) \/ Cut(p)
  PROVE  Registry!Next \/ UNCHANGED <<ServerPeer, ServerCall>>
<1>0. Works(p)
  BY DEF Works
<1>n. PICK n : n = proc[p].name
  OBVIOUS
<1>1. /\ Finds(p) /\ TypeInv /\ proc[p].pc # "gone" /\ n \in Names /\ n = proc[p].name
      /\ config[n] = NoBlock /\ InConf(n) => proc[p].pc = "config"
  BY <1>0, <1>n, FindsCalm DEF Finds
<1>2. CASE DisableNothing(p)
  <2>1. /\ proc[p].pc = "begin" /\ proc[p].cmd = "disable" /\ ~InConf(n)
        /\ Goes(p, "ok") /\ UNCHANGED <<conf, config>>
    BY <1>1, <1>2 DEF DisableNothing, At, Ends
  <2>2. Phase(p) = "asked" /\ Phase(p)' = "done"
    <3>1. proc'[p].pc = "ok"
      BY <1>1, <2>1, GoesIs
    <3> QED
      BY <2>1, <3>1 DEF Phase
  <2>3. ServerPeer' = [ServerPeer EXCEPT ![n] = Registry!After("disable", ServerPeer[n])]
    <3>1. ServerPeer[n] \in {"none", "off"}
      BY <1>1, <2>1, PeerIs
    <3>2. Registry!After("disable", ServerPeer[n]) = ServerPeer[n]
      BY <3>1 DEF Registry!After
    <3>3. ServerPeer' = ServerPeer
      BY <2>1, SamePeers
    <3> QED
      BY <3>2, <3>3 DEF ServerPeer
  <2> QED
    BY <1>1, <2>1, <2>2, <2>3, Acts
<1>3. CASE DisableSave(p)
  <2>1. proc[p].pc = "begin" /\ Takes(p, "cut", FindPeer(n)) /\ UNCHANGED <<conf, config>>
    BY <1>1, <1>3 DEF DisableSave, At
  <2>2. Phase(p)' = Phase(p)
    <3>1. proc'[p].pc = "cut"
      BY <1>1, <2>1, TakesIs
    <3> QED
      BY <2>1, <3>1 DEF Phase
  <2> QED
    BY <1>1, <2>1, <2>2, Unseen, SamePeers
<1>4. CASE Cut(p)
  <2>1. proc[p].pc = "cut" /\ Goes(p, "awg") /\ UNCHANGED config
    BY <1>4 DEF Cut
  <2>2. proc'[p].pc = "awg" /\ proc'[p].cmd = proc[p].cmd
    BY <1>1, <2>1, GoesIs
  <2>3. Blocks' = {b \in Blocks : b.name # n}
    <3>1. \E at \in InOrder(DOMAIN conf \ Named(n)) : conf' = [k \in DOMAIN at |-> conf[at[k]]]
      BY <1>1, <1>4 DEF Cut
    <3>2. conf \in Seq(Block)
      BY <1>1 DEF Finds, FilesTyped
    <3> QED
      BY <3>1, <3>2, CutConf
  <2>4. proc[p].cmd \in {"disable", "remove"}
    BY <1>1, <2>1, Asked DEF TypeInv, CallOK
  <2>5. InConf(n)
    BY <1>1, <2>1, InConfIs DEF Finds, HalfWay
  <2>6. config[n] # NoBlock
    BY <1>1, <2>1, <2>5
  <2>7. ~InConf(n)' /\ \A m \in Names : m # n => (InConf(m)' <=> InConf(m))
    BY <2>3, InConfIs
  <2>8. ServerPeer[n] = "on" /\ ServerPeer' = [ServerPeer EXCEPT ![n] = "off"]
    BY <1>1, <2>1, <2>5, <2>6, <2>7, PeerIs, PeerMoves
  <2>9. CASE proc[p].cmd = "disable"
    <3>1. Phase(p) = "asked" /\ Phase(p)' = "done"
      BY <2>1, <2>2, <2>9 DEF Phase
    <3>2. Registry!After("disable", ServerPeer[n]) = "off"
      BY <2>8 DEF Registry!After
    <3> QED
      BY <1>1, <2>1, <2>8, <2>9, <3>1, <3>2, Acts
  <2>10. CASE proc[p].cmd = "remove"
    <3>1. Phase(p) = "asked" /\ Phase(p)' = Phase(p)
      BY <2>1, <2>2, <2>10 DEF Phase
    <3>2. ServerCall' = ServerCall
      BY <1>1, <2>1, <3>1, Unseen
    <3>3. ServerCall[p].phase = "asked" /\ ServerCall[p].cmd = "remove" /\ ServerCall[p].name = n
      BY <1>1, <2>10, <3>1, CallIs
    <3>4. Registry!SwitchOff(p)
      BY <2>8, <3>2, <3>3 DEF Registry!SwitchOff
    <3> QED
      BY <3>4 DEF Registry!Next
  <2> QED
    BY <2>4, <2>9, <2>10
<1>5. CASE DisableLive(p)
  <2>1. proc[p].pc = "awg" /\ proc[p].cmd = "disable" /\ Goes(p, "ok") /\ UNCHANGED <<conf, config>>
    BY <1>5 DEF DisableLive, At, Ends
  <2>2. Phase(p)' = Phase(p)
    <3>1. proc'[p].pc = "ok"
      BY <1>1, <2>1, GoesIs
    <3> QED
      BY <2>1, <3>1 DEF Phase
  <2> QED
    BY <1>1, <2>1, <2>2, Unseen, SamePeers
<1> QED
  BY <1>2, <1>3, <1>4, <1>5 DEF DisablePeer

\* cmd_enable_peer acts when it puts the block back, or when it finds it in awg1.conf.
LEMMA EnableActs ==
  ASSUME Inv, Calm, NEW p \in Procs, EnablePeer(p)
  PROVE  Registry!Next \/ UNCHANGED <<ServerPeer, ServerCall>>
<1>0. Works(p)
  BY DEF Works
<1>n. PICK n : n = proc[p].name
  OBVIOUS
<1>1. /\ Finds(p) /\ TypeInv /\ proc[p].pc # "gone" /\ n \in Names /\ n = proc[p].name
      /\ config[n] = NoBlock =>
           /\ InConf(n) => proc[p].pc = "config"
           /\ saved[n] # NoBlock => proc[p].pc \in {"conf", "config", "unlink_peer"}
  BY <1>0, <1>n, FindsCalm DEF Finds
<1>2. CASE EnablePresent(p)
  <2>1. /\ proc[p].pc = "begin" /\ proc[p].cmd = "enable" /\ InConf(n)
        /\ Takes(p, "awg", FindPeer(n)) /\ UNCHANGED <<conf, config>>
    BY <1>1, <1>2 DEF EnablePresent, At
  <2>2. Phase(p) = "asked" /\ Phase(p)' = "done"
    <3>1. proc'[p].pc = "awg" /\ proc'[p].cmd = "enable"
      BY <1>1, <2>1, TakesIs
    <3> QED
      BY <2>1, <3>1 DEF Phase
  <2>3. ServerPeer[n] = "on" /\ ServerPeer' = ServerPeer
    BY <1>1, <2>1, PeerIs, SamePeers
  <2>4. ServerPeer' = [ServerPeer EXCEPT ![n] = Registry!After("enable", ServerPeer[n])]
    BY <2>3 DEF ServerPeer, Registry!After
  <2> QED
    BY <1>1, <2>1, <2>2, <2>3, <2>4, Acts
<1>3. CASE EnableConf(p)
  <2>1. /\ proc[p].pc = "begin" /\ proc[p].cmd = "enable" /\ ~InConf(n) /\ saved[n] # NoBlock
        /\ Takes(p, "awg", saved[n]) /\ conf' = Append(conf, saved[n]) /\ UNCHANGED config
    BY <1>1, <1>3 DEF EnableConf, Restorable, At
  <2>2. saved[n] \in Block /\ saved[n].name = n
    BY <1>1, <2>1 DEF TypeInv, FilesTyped
  <2>3. Blocks' = Blocks \union {saved[n]}
    BY <1>1, <2>1, <2>2, AppendConf DEF Finds, FilesTyped
  <2>4. InConf(n)' /\ \A m \in Names : m # n => (InConf(m)' <=> InConf(m))
    BY <1>1, <2>2, <2>3, InConfIs
  <2>5. ServerPeer' = [ServerPeer EXCEPT ![n] = "on"]
    BY <1>1, <2>1, <2>4, PeerMoves
  <2>6. ServerPeer[n] # "none"
    BY <1>1, <2>1, PeerIs
  <2>7. Registry!After("enable", ServerPeer[n]) = "on"
    BY DEF Registry!After
  <2>8. Phase(p) = "asked" /\ Phase(p)' = "done"
    <3>1. proc'[p].pc = "awg" /\ proc'[p].cmd = "enable"
      BY <1>1, <2>1, TakesIs
    <3> QED
      BY <2>1, <3>1 DEF Phase
  <2> QED
    BY <1>1, <2>1, <2>5, <2>6, <2>7, <2>8, Acts
<1>4. CASE EnableRefused(p)
  BY <1>1, <1>4, Fails DEF EnableRefused, At, Phase
<1>5. CASE EnableLive(p)
  <2>1. proc[p].pc = "awg" /\ proc[p].cmd = "enable" /\ Goes(p, "ok") /\ UNCHANGED <<conf, config>>
    BY <1>5 DEF EnableLive, At, Ends
  <2>2. Phase(p)' = Phase(p)
    <3>1. proc'[p].pc = "ok"
      BY <1>1, <2>1, GoesIs
    <3> QED
      BY <2>1, <3>1 DEF Phase
  <2> QED
    BY <1>1, <2>1, <2>2, Unseen, SamePeers
<1> QED
  BY <1>2, <1>3, <1>4, <1>5 DEF EnablePeer

\* cmd_remove_peer acts when it deletes the client's config.
LEMMA RemoveActs ==
  ASSUME Inv, Calm, NEW p \in Procs, RemovePeer(p)
  PROVE  Registry!Next \/ UNCHANGED <<ServerPeer, ServerCall>>
<1>0. Works(p)
  BY DEF Works
<1>n. PICK n : n = proc[p].name
  OBVIOUS
<1>1. Finds(p) /\ TypeInv /\ proc[p].pc # "gone" /\ n \in Names /\ n = proc[p].name
  BY <1>0, <1>n, FindsCalm DEF Finds
<1>2. CASE RemoveBegin(p) \/ RemoveLive(p)
  <2>1. PICK pc \in {"cut", "awg", "unlink"} : Goes(p, pc) \/ \E b : Takes(p, pc, b)
    BY <1>2 DEF RemoveBegin, RemoveLive
  <2>2. Phase(p) = "asked" /\ proc[p].cmd = "remove" /\ UNCHANGED <<conf, config>>
    BY <1>2 DEF RemoveBegin, RemoveLive, At, Phase
  <2>3. proc'[p].pc = pc /\ proc'[p].cmd = "remove"
    BY <1>1, <2>1, <2>2, GoesIs, TakesIs
  <2>4. Phase(p)' = "asked"
    BY <2>3 DEF Phase
  <2> QED
    BY <1>1, <2>1, <2>2, <2>4, Unseen, SamePeers
<1>3. CASE RemoveConfig(p)
  <2>1. /\ proc[p].pc = "unlink" /\ proc[p].cmd = "remove" /\ Goes(p, "unlink_peer") /\ UNCHANGED conf
        /\ config' = [config EXCEPT ![n] = NoBlock]
    BY <1>1, <1>3 DEF RemoveConfig, At
  <2>2. ~InConf(n)
    BY <1>1, <2>1 DEF Finds, HalfWay
  <2>3. /\ config'[n] = NoBlock /\ \A m : InConf(m)' <=> InConf(m)
        /\ \A m \in Names : m # n => config'[m] = config[m]
    BY <1>1, <2>1, SameConf DEF Finds, FilesTyped
  <2>4. ServerPeer' = [ServerPeer EXCEPT ![n] = "none"]
    BY <1>1, <2>2, <2>3, PeerMoves
  <2>5. Registry!After("remove", ServerPeer[n]) = "none"
    BY DEF Registry!After
  <2>6. Phase(p) = "asked" /\ Phase(p)' = "done"
    <3>1. proc'[p].pc = "unlink_peer"
      BY <1>1, <2>1, GoesIs
    <3> QED
      BY <2>1, <3>1 DEF Phase
  <2> QED
    BY <1>1, <2>1, <2>4, <2>5, <2>6, Acts
<1>4. CASE RemoveSaved(p)
  <2>1. proc[p].pc = "unlink_peer" /\ Goes(p, "ok") /\ UNCHANGED <<conf, config>>
    BY <1>4 DEF RemoveSaved, At, Ends
  <2>2. Phase(p)' = Phase(p)
    <3>1. proc'[p].pc = "ok"
      BY <1>1, <2>1, GoesIs
    <3> QED
      BY <2>1, <3>1 DEF Phase
  <2> QED
    BY <1>1, <2>1, <2>2, Unseen, SamePeers
<1> QED
  BY <1>2, <1>3, <1>4 DEF RemovePeer

\* A connection is seen when it asks and when it is answered; the lock is not.
LEMMA ServeActs ==
  ASSUME Inv, NEW p \in Procs,
         (\E cmd \in Commands, m \in Names : Request(p, cmd, m)) \/ Acquire(p) \/ Respond(p)
  PROVE  Registry!Next \/ UNCHANGED <<ServerPeer, ServerCall>>
<1>0. TypeInv /\ proc = [q \in Procs |-> proc[q]] /\ Gone.pc = "gone"
  BY DEF Inv, TypeInv, Gone
<1>1. ServerPeer' = ServerPeer
  BY SamePeers DEF Request, Acquire, Respond
<1>2. ASSUME NEW cmd \in Commands, NEW n \in Names, Request(p, cmd, n) PROVE Registry!Next
  <2> DEFINE r == [pc |-> "wait", cmd |-> cmd, name |-> n, block |-> NoBlock]
  <2>1. proc[p] = Gone /\ proc'[p] = r /\ \A q \in Procs : q # p => proc'[q] = proc[q]
    BY <1>0, <1>2 DEF Request
  <2>2. r # Gone /\ r.pc = "wait" /\ r.cmd = cmd /\ r.name = n
    BY <1>0
  <2> HIDE DEF r
  <2>3. Phase(p)' = "asked" /\ \A q \in Procs : q # p => Phase(q)' = Phase(q)
    BY <2>1, <2>2 DEF Phase
  <2>4. ServerCall[p] = Registry!NoCall
    BY <2>1 DEF ServerCall, Registry!NoCall
  <2>5. ServerCall' = [ServerCall EXCEPT ![p] = [phase |-> "asked", cmd |-> cmd, name |-> n]]
    BY <2>1, <2>2, <2>3 DEF ServerCall
  <2>6. Registry!Ask(p, cmd, n)
    BY <1>1, <2>4, <2>5 DEF Registry!Ask
  <2> QED
    BY <2>6 DEF Registry!Next, Registry!Commands, Commands
<1>3. CASE Acquire(p)
  <2>1. proc[p].pc = "wait" /\ Goes(p, "begin")
    BY <1>3 DEF Acquire
  <2>2. Phase(p)' = Phase(p)
    <3>1. proc'[p].pc = "begin"
      BY <1>0, <2>1, GoesIs
    <3> QED
      BY <2>1, <3>1 DEF Phase
  <2> QED
    BY <1>0, <1>1, <2>1, <2>2, Unseen
<1>4. CASE Respond(p)
  <2>1. proc[p].pc \in {"ok", "error"} /\ proc'[p] = Gone /\ \A q \in Procs : q # p => proc'[q] = proc[q]
    BY <1>0, <1>4 DEF Respond
  <2>2. ServerCall[p].phase \in {"done", "failed"}
    BY <1>0, <2>1, CallIs DEF Phase
  <2>3. \A q \in Procs : q # p => Phase(q)' = Phase(q)
    BY <2>1 DEF Phase
  <2>4. ServerCall' = [ServerCall EXCEPT ![p] = Registry!NoCall]
    BY <2>1, <2>3 DEF ServerCall, Registry!NoCall
  <2>5. Registry!Answer(p)
    BY <1>1, <2>2, <2>4 DEF Registry!Answer
  <2> QED
    BY <2>5 DEF Registry!Next
<1> QED
  BY <1>1, <1>2, <1>3, <1>4

\* The operator's script adds a client that the bot sees nothing of; a boot is not seen.
LEMMA HostActs ==
  ASSUME Inv, Reboot \/ \E n \in Names, a \in Addrs : ScriptAdd(n, a)
  PROVE  Registry!Next \/ UNCHANGED <<ServerPeer, ServerCall>>
<1>1. CASE Reboot
  BY <1>1, SamePeers DEF Reboot, ServerCall, Phase
<1>2. ASSUME NEW n \in Names, NEW a \in Addrs, ScriptAdd(n, a) PROVE Registry!Next
  <2> DEFINE b == [name |-> n, addr |-> a]
  <2>1. /\ n \in ScriptNames /\ conf' = Append(conf, b) /\ config' = [config EXCEPT ![n] = b]
        /\ config[n] = NoBlock /\ ~InConf(n) /\ UNCHANGED proc
    BY <1>2 DEF ScriptAdd
  <2>2. b \in Block /\ b.name = n
    BY DEF Block
  <2> HIDE DEF b
  <2>3. conf \in Seq(Block) /\ \A m \in Names : m # n => config'[m] = config[m]
    BY <2>1 DEF Inv, TypeInv, FilesTyped
  <2>4. Blocks' = Blocks \union {b}
    BY <2>1, <2>2, <2>3, AppendConf
  <2>5. InConf(n)' /\ \A m \in Names : m # n => (InConf(m)' <=> InConf(m))
    BY <2>2, <2>4, InConfIs
  <2>6. ServerPeer[n] = "none" /\ ServerPeer' = [ServerPeer EXCEPT ![n] = "on"]
    BY <2>1, <2>3, <2>5, PeerIs, PeerMoves
  <2>7. ServerCall' = ServerCall
    BY <2>1 DEF ServerCall, Phase
  <2>8. Registry!AddByHand(n)
    BY <2>1, <2>6, <2>7 DEF Registry!AddByHand
  <2> QED
    BY <2>8 DEF Registry!Next
<1> QED
  BY <1>1, <1>2

\* With the lock, the order of the writes and no fault so far, vpnctl is the peer registry
\* that the bot takes it for, and that Access assumes of every call.
THEOREM IsPeerServer == Spec => RefinesPeerServer
<1> DEFINE Seen == faults' = 0 => [Registry!Next]_<<ServerPeer, ServerCall>>
<1>1. Init => Registry!Init
  <2> SUFFICES ASSUME Init PROVE Registry!Init
    OBVIOUS
  <2>1. \A n : ~InConf(n)
    BY DEF Init, InConf, Named
  <2> QED
    BY <2>1 DEF Init, Registry!Init, Registry!NoCall, ServerPeer, ServerCall
<1>2. Inv /\ CalmInv /\ [Next]_vars => [Seen]_vars
  <2> SUFFICES ASSUME Inv, CalmInv, Next, faults' = 0
               PROVE  Registry!Next \/ UNCHANGED <<ServerPeer, ServerCall>>
    OBVIOUS
  <2>1. faults = 0 /\ Calm
    BY FaultsGrow DEF Inv, CalmInv
  <2>2. \A p \in Procs : ~AwgError(p) /\ ~Kill(p)
    BY <2>1 DEF AwgError, Kill, Fault
  <2> QED
    BY <2>1, <2>2, CreateActs, DisableActs, EnableActs, RemoveActs, ServeActs, HostActs DEF Next
<1>3. Spec => Registry!Init /\ [][Seen]_vars
  BY <1>1, <1>2, BothHold, PTL DEF Spec
<1> QED
  BY <1>3 DEF RefinesPeerServer
=============================================================================
