------------------------- MODULE ConfigStore_proofs -------------------------
(***************************************************************************)
(* Proofs about ConfigStore.  The types, one running write and the order   *)
(* of the answers hold under every fault; nothing saved is lost, with any  *)
(* number of concurrent writers, up to the first fault or command.         *)
(***************************************************************************)
EXTENDS ConfigStore, TLAPS

----------------------------------------------------------------------------
(* The queue.                                                              *)

\* The types the queue argument needs, and its discipline: a write that is
\* running or settled has only settled writes before it.
QueueInv ==
  /\ called \in 0..MaxWrites
  /\ outcome \in [Writes -> {"new", "queued", "running", "saved", "rejected"}]
  /\ stage \in [Writes -> {"none", "reading", "writing", "renaming",
                           "lateWriting", "lateRenaming", "ended"}]
  /\ \A w \in Writes : w > called => outcome[w] = "new"
  /\ \A w \in Writes : outcome[w] \in {"new", "queued"} => stage[w] = "none"
  /\ \A v, w \in Writes :
       v < w /\ (outcome[w] = "running" \/ Settled(w)) => Settled(v)

\* No step of any actor disturbs the order in which callers are answered.
LEMMA QueueStep == QueueInv /\ [Next]_vars => QueueInv'
<1> SUFFICES ASSUME QueueInv, [Next]_vars PROVE QueueInv'
  OBVIOUS
<1>1. ASSUME NEW w \in Writes, Call(w) PROVE QueueInv'
  <2>1. w > called /\ outcome[w] = "new" /\ called' \in 0..MaxWrites
    BY <1>1, ConfigAssumption DEF Call, QueueInv, Writes
  <2>2. \A v \in Writes : v > called' => v > called
    BY <1>1, ConfigAssumption DEF Call, QueueInv, Writes
  <2>3. QED BY <1>1, <2>1, <2>2 DEF Call, QueueInv, Settled
<1>2. ASSUME NEW w \in Writes, Start(w) PROVE QueueInv'
  BY <1>2 DEF Start, QueueInv, Settled
<1>3. ASSUME NEW w \in Writes, ReadBase(w) \/ WriteTmp(w) PROVE QueueInv'
  BY <1>3 DEF ReadBase, WriteTmp, QueueInv, Settled
<1>4. ASSUME NEW w \in Writes, Rename(w) \/ TimesOut(w) PROVE QueueInv'
  <2>1. /\ called' = called
        /\ outcome' \in [Writes -> {"new", "queued", "running", "saved", "rejected"}]
        /\ \A v \in Writes : v # w => outcome'[v] = outcome[v] /\ stage'[v] = stage[v]
        /\ \/ outcome'[w] = outcome[w]
           \/ outcome[w] = "running" /\ outcome'[w] \in {"saved", "rejected"}
    BY <1>4 DEF Rename, TimesOut, OperationTimesOut, WriteTimesOut, QueueInv
  <2>2. stage' \in [Writes -> {"none", "reading", "writing", "renaming",
                              "lateWriting", "lateRenaming", "ended"}]
    BY <1>4 DEF Rename, TimesOut, OperationTimesOut, WriteTimesOut, QueueInv
  <2>3. outcome[w] \notin {"new", "queued"}
    BY <1>4 DEF Rename, TimesOut, OperationTimesOut, WriteTimesOut, QueueInv
  <2>4. \A v \in Writes : Settled(v) => Settled(v)'
    BY <2>1 DEF Settled
  <2>5. \A v \in Writes : outcome'[v] = "running" \/ Settled(v)'
                            => outcome[v] = "running" \/ Settled(v)
    BY <2>1 DEF Settled
  <2>6. QED BY <2>1, <2>2, <2>3, <2>4, <2>5 DEF QueueInv
<1>5. CASE CliReads \/ CliWritesTmp \/ CliRenames \/ Dispatch \/ UNCHANGED vars
  BY <1>5 DEF CliReads, CliWritesTmp, CliRenames, Dispatch, vars, QueueInv, Settled
<1>6. QED BY <1>1, <1>2, <1>3, <1>4, <1>5 DEF Next, Advance

\* The discipline of the queue holds under every fault.
THEOREM QueueHolds == Spec => []QueueInv
<1>1. Init => QueueInv
  BY ConfigAssumption DEF Init, QueueInv, Settled
<1>2. QED BY <1>1, QueueStep, PTL DEF Spec

\* Callers are answered in the order of their calls.
THEOREM AnsweredInOrder == Spec => []SettleInOrder
<1>1. QueueInv => SettleInOrder
  BY DEF QueueInv, SettleInOrder
<1>2. QED BY <1>1, QueueHolds, PTL

\* What is written to the files, whatever fails: configurations with a value in
\* every field.
Drafts ==
  /\ field \in [Writes -> Fields] /\ draft \in [Writes -> Configs]
  /\ disk \in Configs /\ (tmp = NoFile \/ tmp \in Configs)
  /\ cli \in {"idle", "writing", "renaming"}
  /\ cliDraft \in Configs /\ cliRuns \in 0..MaxCli
  /\ memory \in Values /\ lastSwitch \in Values /\ disturbed \in BOOLEAN

LEMMA DraftsStep == Drafts /\ [Next]_vars => Drafts'
<1> SUFFICES ASSUME Drafts, [Next]_vars PROVE Drafts'
  OBVIOUS
<1>0. /\ Writes \subseteq Values /\ Default \in Values /\ Outside \in Values
      /\ MaxCli \in Nat /\ PluginField \in Fields
  BY ConfigAssumption DEF Values, Writes, Default, Outside
<1>1. \A c \in Configs, f \in Fields, x \in Values : [c EXCEPT ![f] = x] \in Configs
  BY DEF Configs
<1>2. ASSUME NEW w \in Writes, Call(w) PROVE Drafts'
  BY <1>0, <1>2 DEF Call, Drafts, files, cliVars
<1>3. ASSUME NEW w \in Writes, Start(w) \/ TimesOut(w) PROVE Drafts'
  BY <1>3 DEF Start, TimesOut, OperationTimesOut, WriteTimesOut, Drafts, files, cliVars
<1>4. ASSUME NEW w \in Writes, ReadBase(w) PROVE Drafts'
  <2> DEFINE merged   == [disk EXCEPT ![field[w]] = w]
             defaults == [f \in Fields |-> IF f = field[w] THEN w ELSE Default]
  <2>1. merged \in Configs
    BY <1>0, <1>1 DEF Drafts
  <2>2. defaults \in Configs
    BY <1>0 DEF Configs
  <2>3. \E d \in {merged, defaults} : draft' = [draft EXCEPT ![w] = d]
    BY <1>4 DEF ReadBase
  <2> HIDE DEF merged, defaults
  <2>4. draft' \in [Writes -> Configs]
    BY <2>1, <2>2, <2>3 DEF Drafts
  <2>5. QED BY <1>4, <2>4 DEF ReadBase, Drafts, files, cliVars
<1>5. ASSUME NEW w \in Writes, WriteTmp(w) \/ Rename(w) PROVE Drafts'
  BY <1>5 DEF WriteTmp, Rename, Drafts, files, cliVars
<1>6. CASE CliReads
  <2>1. cliRuns' \in 0..MaxCli
    BY <1>0, <1>6 DEF CliReads, Drafts
  <2>2. cliDraft' \in Configs /\ cli' \in {"idle", "writing", "renaming"}
    BY <1>0, <1>1, <1>6 DEF CliReads, Drafts
  <2>3. QED BY <1>6, <2>1, <2>2 DEF CliReads, Drafts
<1>7. CASE CliWritesTmp \/ CliRenames
  BY <1>7 DEF CliWritesTmp, CliRenames, Drafts, files
<1>8. CASE Dispatch
  <2>1. disk[PluginField] \in Values
    BY <1>0 DEF Drafts, Configs
  <2>2. memory' \in Values
    BY <1>0, <1>8, <2>1 DEF Dispatch, Drafts
  <2>3. QED BY <1>8, <2>2 DEF Dispatch, Drafts, files, cliVars
<1>9. CASE UNCHANGED vars
  BY <1>9 DEF vars, Drafts
<1>10. QED BY <1>2, <1>3, <1>4, <1>5, <1>6, <1>7, <1>8, <1>9 DEF Next, Advance

\* Every variable keeps its type and at most one write is between its start and
\* its outcome, under every fault: no timeout lets two of them be answered for.
THEOREM TypeCorrect == Spec => []TypeOK
<1>1. Init => Drafts
  <2>1. [f \in Fields |-> Initial] \in Configs /\ Initial \in Values /\ 0 \in 0..MaxCli
    BY ConfigAssumption DEF Configs, Values, Initial, Default, Outside
  <2> SUFFICES ASSUME Init PROVE Drafts
    OBVIOUS
  <2>2. disk \in Configs /\ draft = [w \in Writes |-> disk] /\ cliDraft = disk
    BY <2>1 DEF Init
  <2>3. draft \in [Writes -> Configs]
    BY <2>2
  <2>4. QED BY <2>1, <2>2, <2>3 DEF Init, Drafts
<1>2. QueueInv /\ Drafts => TypeOK
  <2>1. QueueInv => \A v, w \in Writes :
          outcome[v] = "running" /\ outcome[w] = "running" => v = w
    BY ConfigAssumption DEF QueueInv, Settled, Writes
  <2>2. QED BY <2>1 DEF QueueInv, Drafts, TypeOK
<1>3. QED BY <1>1, <1>2, QueueHolds, DraftsStep, PTL DEF Spec

----------------------------------------------------------------------------
(* Lost updates.                                                           *)

\* Without faults the running write owns the files: its draft is the file with
\* its own field set, the temporary file holds its draft, and every value in
\* the file belongs to a saved write.
FilesValid ==
  /\ field \in [Writes -> Fields] /\ disk \in Configs
  /\ \A f \in Fields : \/ disk[f] = Initial
                       \/ disk[f] \in Writes /\ outcome[disk[f]] = "saved"
  /\ \A w \in Writes : outcome[w] = "saved" => disk[field[w]] >= w

Owner ==
  /\ draft \in [Writes -> Configs]
  /\ \A w \in Writes : stage[w] \in {"none", "reading", "writing", "renaming", "ended"}
  /\ \A w \in Writes : outcome[w] = "running" <=>
                         stage[w] \in {"reading", "writing", "renaming"}
  /\ \A w \in Writes : stage[w] \in {"writing", "renaming"} =>
                         draft[w] = [disk EXCEPT ![field[w]] = w]
  /\ \A w \in Writes : stage[w] = "renaming" => tmp = draft[w]

FileInv == cli = "idle" /\ FilesValid /\ Owner

\* The file stays valid while it and the set of saved writes stay the same.
LEMMA FilesFrame ==
  ASSUME FilesValid, UNCHANGED <<field, disk>>,
         \A v \in Writes : outcome[v] = "saved" <=> outcome'[v] = "saved"
  PROVE  FilesValid'
<1>1. \A f \in Fields : \/ disk[f] = Initial
                        \/ disk[f] \in Writes /\ outcome'[disk[f]] = "saved"
  <2> SUFFICES ASSUME NEW f \in Fields
               PROVE  \/ disk[f] = Initial
                      \/ disk[f] \in Writes /\ outcome'[disk[f]] = "saved"
    OBVIOUS
  <2>1. CASE disk[f] \in Writes /\ outcome[disk[f]] = "saved"
    BY <2>1
  <2>2. QED BY <2>1 DEF FilesValid
<1>2. QED BY <1>1 DEF FilesValid

\* A step that moves no write and no file keeps the invariant.
LEMMA IdleStep ==
  ASSUME FileInv, UNCHANGED <<field, stage, draft, disk, tmp, cli>>,
         \A v \in Writes : /\ outcome[v] = "saved" <=> outcome'[v] = "saved"
                           /\ outcome[v] = "running" <=> outcome'[v] = "running"
  PROVE  FileInv'
<1>1. FilesValid'
  BY FilesFrame DEF FileInv
<1>2. Owner'
  BY DEF FileInv, Owner
<1>3. QED BY <1>1, <1>2 DEF FileInv

\* An absent file is no configuration: it has no keys.
LEMMA NoFileIsNoConfig == NoFile \notin Configs
<1>1. DOMAIN NoFile = {}
  BY DEF NoFile
<1>2. \A c \in Configs : DOMAIN c = Fields
  BY DEF Configs
<1>3. Fields # {}
  BY ConfigAssumption
<1>4. QED BY <1>1, <1>2, <1>3

\* The ownership of the files is kept by every step.
LEMMA FileStep ==
  ASSUME QueueInv, FileInv, [Next]_vars, ~disturbed'
  PROVE  FileInv'
<1>r. ASSUME NEW v \in Writes, NEW w \in Writes,
             outcome[v] = "running", outcome[w] = "running"
      PROVE  v = w
  BY <1>r, ConfigAssumption DEF QueueInv, Settled, Writes
<1>1. ASSUME NEW w \in Writes, Call(w) PROVE FileInv'
  <2>1. outcome[w] = "new" /\ stage[w] = "none"
    BY <1>1, ConfigAssumption DEF Call, QueueInv, Writes
  <2>2. /\ \A v \in Writes : outcome[v] = "saved" <=> outcome'[v] = "saved"
        /\ \A v \in Writes : outcome[v] = "running" <=> outcome'[v] = "running"
    BY <1>1, <2>1 DEF Call, QueueInv
  <2>3. UNCHANGED <<field, stage, draft, disk, tmp, cli>>
    BY <1>1 DEF Call, files, cliVars
  <2>4. QED BY <2>2, <2>3, IdleStep
<1>2. ASSUME NEW w \in Writes, Start(w) PROVE FileInv'
  <2>1. /\ \A v \in Writes : outcome[v] = "saved" <=> outcome'[v] = "saved"
        /\ \A v \in Writes : v # w => outcome'[v] = outcome[v] /\ stage'[v] = stage[v]
        /\ outcome'[w] = "running" /\ stage'[w] = "reading"
    BY <1>2 DEF Start, QueueInv
  <2>2. UNCHANGED <<field, draft, disk, tmp, cli>>
    BY <1>2 DEF Start, files, cliVars
  <2>3. FilesValid'
    BY <2>1, <2>2, FilesFrame DEF FileInv
  <2>4. \A v \in Writes : stage[v] \in {"writing", "renaming"} <=>
                            stage'[v] \in {"writing", "renaming"}
    BY <1>2, <2>1 DEF Start, QueueInv
  <2>5. \A v \in Writes : stage[v] = "renaming" <=> stage'[v] = "renaming"
    BY <1>2, <2>1 DEF Start, QueueInv
  <2>6. Owner'
    BY <2>1, <2>2, <2>4, <2>5 DEF FileInv, Owner
  <2>7. QED BY <2>2, <2>3, <2>6 DEF FileInv
<1>3. ASSUME NEW w \in Writes, ReadBase(w) PROVE FileInv'
  <2>1. /\ draft' = [draft EXCEPT ![w] = [disk EXCEPT ![field[w]] = w]]
        /\ stage' = [stage EXCEPT ![w] = "writing"]
        /\ UNCHANGED <<field, outcome, disk, tmp, cli>>
        /\ stage[w] = "reading"
    BY <1>3 DEF ReadBase, files, cliVars
  <2>2. [disk EXCEPT ![field[w]] = w] \in Configs
    BY ConfigAssumption DEF FileInv, FilesValid, Configs, Values, Writes, Default, Outside
  <2>3. draft' \in [Writes -> Configs]
    BY <2>1, <2>2 DEF FileInv, Owner
  <2>4. /\ draft'[w] = [disk EXCEPT ![field[w]] = w]
        /\ \A v \in Writes : v # w => draft'[v] = draft[v] /\ stage'[v] = stage[v]
        /\ stage'[w] = "writing"
    BY <2>1 DEF FileInv, Owner, QueueInv
  <2>5. QED BY <2>1, <2>3, <2>4 DEF FileInv, Owner, FilesValid
<1>4. ASSUME NEW w \in Writes, WriteTmp(w) PROVE FileInv'
  <2>1. /\ stage[w] = "writing" /\ tmp' = draft[w]
        /\ stage'[w] = "renaming"
        /\ \A v \in Writes : v # w => stage'[v] = stage[v]
        /\ UNCHANGED <<field, outcome, draft, disk, cli>>
    BY <1>4 DEF WriteTmp, FileInv, Owner, QueueInv, cliVars
  <2>2. \A v \in Writes : stage[v] = "renaming" => FALSE
    BY <1>r, <2>1 DEF FileInv, Owner
  <2>3. QED BY <2>1, <2>2 DEF FileInv, Owner, FilesValid
<1>5. ASSUME NEW w \in Writes, Rename(w) PROVE FileInv'
  <2>1. stage[w] = "renaming" /\ outcome[w] = "running" /\ tmp = draft[w]
        /\ draft[w] = [disk EXCEPT ![field[w]] = w] /\ draft[w] \in Configs
    BY <1>5 DEF Rename, FileInv, Owner
  <2>2. tmp # NoFile
    BY <2>1, NoFileIsNoConfig
  <2>3. /\ disk' = [disk EXCEPT ![field[w]] = w] /\ disk' \in Configs
        /\ stage'[w] = "ended" /\ outcome'[w] = "saved"
        /\ \A v \in Writes : v # w => stage'[v] = stage[v] /\ outcome'[v] = outcome[v]
        /\ UNCHANGED <<field, draft, cli>>
    BY <1>5, <2>1, <2>2 DEF Rename, QueueInv, cliVars
  <2>4. \A v \in Writes : stage'[v] \notin {"reading", "writing", "renaming"}
    BY <1>r, <2>1, <2>3 DEF FileInv, Owner
  <2>5. \A v \in Writes : outcome'[v] # "running"
    BY <1>r, <2>1, <2>3
  <2>6. field[w] \in Fields /\ disk'[field[w]] = w
        /\ \A f \in Fields : f # field[w] => disk'[f] = disk[f]
    BY <2>3 DEF FileInv, FilesValid, Configs
  <2>f. \A f \in Fields : \/ disk[f] = Initial
                          \/ disk[f] \in Writes /\ outcome'[disk[f]] = "saved"
    <3> SUFFICES ASSUME NEW f \in Fields
                 PROVE  \/ disk[f] = Initial
                        \/ disk[f] \in Writes /\ outcome'[disk[f]] = "saved"
      OBVIOUS
    <3>1. CASE disk[f] \in Writes /\ outcome[disk[f]] = "saved"
      BY <3>1, <2>1, <2>3
    <3>2. QED BY <3>1 DEF FileInv, FilesValid
  <2>7. \A f \in Fields : \/ disk'[f] = Initial
                          \/ disk'[f] \in Writes /\ outcome'[disk'[f]] = "saved"
    BY <2>3, <2>6, <2>f
  <2>8. \A v \in Writes : outcome'[v] = "saved" => disk'[field'[v]] >= v
    <3> SUFFICES ASSUME NEW v \in Writes, outcome'[v] = "saved"
                 PROVE  disk'[field[v]] >= v
      BY <2>3
    <3>1. field[v] \in Fields
      BY DEF FileInv, FilesValid
    <3>2. CASE v = w
      BY <2>6, <3>2 DEF Writes
    <3>3. CASE v # w /\ field[v] # field[w]
      BY <2>3, <2>6, <3>1, <3>3 DEF FileInv, Owner, FilesValid
    <3>4. CASE v # w /\ field[v] = field[w]
      <4>1. outcome[v] = "saved"
        BY <2>3, <3>4
      <4>2. ~(w < v)
        BY <2>1, <4>1 DEF QueueInv, Settled
      <4>3. QED BY <2>6, <3>4, <4>2 DEF Writes
    <3>5. QED BY <3>2, <3>3, <3>4
  <2>9. \A v \in Writes : stage'[v] \in {"none", "reading", "writing", "renaming", "ended"}
    BY <2>3 DEF FileInv, Owner
  <2>10. FilesValid'
    BY <2>3, <2>7, <2>8 DEF FileInv, FilesValid
  <2>11. Owner'
    BY <2>3, <2>4, <2>5, <2>9 DEF FileInv, Owner
  <2>12. QED BY <2>3, <2>10, <2>11 DEF FileInv
<1>6. ASSUME NEW w \in Writes, TimesOut(w) PROVE FileInv'
  BY <1>6 DEF TimesOut, OperationTimesOut, WriteTimesOut
<1>7. CASE CliReads \/ CliWritesTmp \/ CliRenames
  BY <1>7 DEF CliReads, CliWritesTmp, CliRenames, FileInv
<1>8. CASE Dispatch \/ UNCHANGED vars
  BY <1>8, IdleStep DEF Dispatch, vars, files, cliVars
<1>9. QED BY <1>1, <1>2, <1>3, <1>4, <1>5, <1>6, <1>7, <1>8 DEF Next, Advance

LEMMA DisturbedStays == [Next]_vars => (disturbed => disturbed')
  BY DEF Next, Advance, TimesOut, Call, Start, ReadBase, WriteTmp, Rename,
         OperationTimesOut, WriteTimesOut, CliReads, CliWritesTmp, CliRenames, Dispatch,
         vars

\* Up to the first fault no update is lost, however many writers call at once.
THEOREM NoLostUpdate == Spec => []SavedIsKept
<1> DEFINE Inv == ~disturbed => FileInv
<1>1. Init => Inv
  <2> SUFFICES ASSUME Init PROVE FileInv
    OBVIOUS
  <2>1. disk \in Configs
    BY ConfigAssumption DEF Init, Configs, Values, Initial, Default, Outside
  <2>2. /\ \A f \in Fields : disk[f] = Initial
        /\ \A w \in Writes : outcome[w] = "new"
    BY DEF Init
  <2>5. FilesValid
    BY <2>1, <2>2 DEF Init, FilesValid
  <2>3. Owner
    BY <2>1 DEF Init, Owner
  <2>4. QED BY <2>5, <2>3 DEF Init, FileInv
<1>2. QueueInv /\ Inv /\ [Next]_vars => Inv'
  BY FileStep, DisturbedStays
<1>3. Inv => SavedIsKept
  BY DEF FileInv, FilesValid, SavedIsKept
<1> HIDE DEF Inv
<1>4. QED BY <1>1, <1>2, <1>3, QueueHolds, PTL DEF Spec
============================================================================
