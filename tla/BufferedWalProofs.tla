-------------------------- MODULE BufferedWalProofs -------------------------
(***************************************************************************)
(* Proofs about BufferedWal: the type invariant, and with it that the      *)
(* buffered file implements DurableLog for every set of lines and every    *)
(* bound.                                                                  *)
(***************************************************************************)
EXTENDS BufferedWal, SequenceTheorems, TLAPS

(* The part of a sequence after its first k elements: its type, its length *)
(* and that it is the whole sequence for k = 0.                            *)
LEMMA RestProperties ==
  ASSUME NEW S, NEW s \in Seq(S), NEW k \in 0 .. Len(s)
  PROVE  /\ SubSeq(s, k + 1, Len(s)) \in Seq(S)
         /\ Len(SubSeq(s, k + 1, Len(s))) = Len(s) - k
         /\ k = 0 => SubSeq(s, k + 1, Len(s)) = s
<1>1. Len(s) \in Nat /\ \A i \in 1 .. Len(s) : s[i] \in S
  BY LenProperties, ElementOfSeq
<1>2. \A i \in k + 1 .. Len(s) : s[i] \in S
  BY <1>1
<1>3. /\ SubSeq(s, k + 1, Len(s)) \in Seq(S)
      /\ Len(SubSeq(s, k + 1, Len(s))) =
            IF k + 1 <= Len(s) THEN Len(s) - (k + 1) + 1 ELSE 0
  BY <1>1, <1>2, SubSeqProperties
<1>4. k = 0 => SubSeq(s, k + 1, Len(s)) = s
  BY SubSeqFull
<1> QED
  BY <1>1, <1>3, <1>4

(* A prefix of a sequence is a sequence of the asked length. *)
LEMMA PrefixProperties ==
  ASSUME NEW S, NEW s \in Seq(S), NEW n \in 0 .. Len(s)
  PROVE  /\ SubSeq(s, 1, n) \in Seq(S)
         /\ Len(SubSeq(s, 1, n)) = n
<1>1. Len(s) \in Nat /\ \A i \in 1 .. n : s[i] \in S
  BY LenProperties, ElementOfSeq
<1>2. /\ SubSeq(s, 1, n) \in Seq(S)
      /\ Len(SubSeq(s, 1, n)) = IF 1 <= n THEN n - 1 + 1 ELSE 0
  BY <1>1, SubSeqProperties
<1> QED
  BY <1>1, <1>2

(* Writing the next buffered line to the file leaves the accepted lines as *)
(* they are: the step ExportToWal repeats.                                 *)
LEMMA WriteNextLine ==
  ASSUME NEW S, NEW f \in Seq(S), NEW b \in Seq(S), NEW p \in Nat, p < Len(b)
  PROVE  Append(f, b[p + 1]) \o SubSeq(b, p + 2, Len(b))
            = f \o SubSeq(b, p + 1, Len(b))
<1> DEFINE next == << b[p + 1] >>
           rest == SubSeq(b, p + 2, Len(b))
<1>1. Len(b) \in Nat /\ p + 1 \in 1 .. Len(b) /\ p + 1 \in 0 .. Len(b)
  BY LenProperties
<1>2. b[p + 1] \in S /\ next \in Seq(S) /\ rest \in Seq(S)
  BY <1>1, ElementOfSeq, RestProperties
<1>3. SubSeq(b, p + 1, Len(b)) = next \o rest
  BY <1>1, SubSeqRecursiveFirst
<1>4. Append(f, b[p + 1]) = f \o next
  BY <1>2, AppendIsConcat
<1> HIDE DEF next, rest
<1>5. (f \o next) \o rest = f \o (next \o rest)
  BY <1>2, ConcatAssociative
<1>6. Append(f, b[p + 1]) \o rest = f \o SubSeq(b, p + 1, Len(b))
  BY <1>3, <1>4, <1>5
<1> QED
  BY <1>6 DEF rest

(* A line accepted at the end of the buffer is at the end of what is still *)
(* to be written.                                                          *)
LEMMA AcceptLine ==
  ASSUME NEW S, NEW f \in Seq(S), NEW b \in Seq(S), NEW l \in S
  PROVE  f \o Append(b, l) = Append(f \o b, l)
<1> DEFINE last == << l >>
<1>1. f \o b \in Seq(S) /\ last \in Seq(S)
  BY ConcatProperties
<1>2. Append(b, l) = b \o last /\ Append(f \o b, l) = (f \o b) \o last
  BY <1>1, AppendIsConcat
<1> HIDE DEF last
<1> QED
  BY <1>1, <1>2, ConcatAssociative

(* The beginning of a concatenation is the beginning of its first part. *)
LEMMA PrefixOfConcat ==
  ASSUME NEW S, NEW f \in Seq(S), NEW t \in Seq(S), NEW n \in 0 .. Len(f)
  PROVE  SubSeq(f \o t, 1, n) = SubSeq(f, 1, n)
<1>1. CASE n = 0
  BY <1>1, SubSeqEmpty
<1>2. CASE n # 0
  <2>1. Len(f) \in Nat /\ 1 \in 1 .. Len(f) /\ n \in 1 .. Len(f)
    BY <1>2, LenProperties
  <2> QED
    BY <2>1, SubSeqOfConcat1
<1> QED
  BY <1>1, <1>2

-----------------------------------------------------------------------------
(* TypeOK is inductive, one step for each action. *)
LEMMA TypeStep == TypeOK /\ [Next]_vars => TypeOK'
<1> SUFFICES ASSUME TypeOK, [Next]_vars
             PROVE  TypeOK'
  OBVIOUS
<1> USE BoundsAssumption DEF TypeOK, fileVars, boundVars, Exporting
<1>0. /\ Len(buffer) \in Nat /\ Len(file) \in Nat
      /\ \A i \in 1 .. Len(buffer) : buffer[i] \in Line
  BY LenProperties, ElementOfSeq
<1>1. ASSUME NEW ok \in BOOLEAN, FinishExport(ok)
      PROVE  /\ buffer' \in Seq(Line) /\ pos' \in 0 .. Len(buffer') /\ pos' = 0
             /\ mu' \in Exporting \cup {"free"} /\ recovered' \in Seq(Line)
             /\ file' = file /\ writes' = writes /\ crashes' = crashes
  <2>1. buffer' \in Seq(Line) /\ Len(buffer') \in Nat /\ pos' = 0
    BY <1>1, RestProperties, LenProperties DEF FinishExport
  <2> QED
    BY <1>1, <2>1 DEF FinishExport
<1>2. ASSUME NEW l \in Line, WriteToWal(l) PROVE TypeOK'
  BY <1>0, <1>2, AppendProperties DEF WriteToWal
<1>3. ASSUME NEW method \in Exporting, StartExport(method) PROVE TypeOK'
  BY <1>3 DEF StartExport
<1>4. CASE WriteRaw
  <2>1. buffer[pos + 1] \in Line /\ pos + 1 \in 0 .. Len(buffer)
    BY <1>0, <1>4 DEF WriteRaw
  <2>2. file' \in Seq(Line) /\ Len(file') = Len(file) + 1
    BY <1>4, <2>1, AppendProperties DEF WriteRaw
  <2> QED
    BY <1>0, <1>4, <2>1, <2>2 DEF WriteRaw
<1>5. CASE ExportNothing
  <2>1. FinishExport(TRUE) /\ synced' = synced /\ faults' = faults
    BY <1>5 DEF ExportNothing
  <2>2. open' \in BOOLEAN
    BY <1>5, Zenon DEF ExportNothing
  <2> QED
    BY <1>1, <2>1, <2>2
<1>6. CASE WriteRawFails
  <2>1. FinishExport(FALSE) /\ synced' = synced /\ open' = FALSE
    BY <1>6 DEF WriteRawFails
  <2>2. faults' \in 0 .. MaxFaults
    BY <1>6 DEF WriteRawFails
  <2> QED
    BY <1>1, <2>1, <2>2
<1>7. CASE ExportSyncs
  <2>1. FinishExport(TRUE) /\ synced' = Len(file) /\ faults' = faults
    BY <1>7 DEF ExportSyncs
  <2>2. open' \in BOOLEAN
    BY <1>7, Zenon DEF ExportSyncs
  <2>3. file' = file
    BY <1>1, <2>1
  <2>4. synced' \in 0 .. Len(file')
    BY <1>0, <2>1, <2>3
  <2> QED
    BY <1>1, <2>1, <2>2, <2>4
<1>8. CASE ExportSyncFails
  <2>1. /\ FinishExport(FALSE) /\ synced' = synced
        /\ faults < MaxFaults /\ faults' = faults + 1
    BY <1>8 DEF ExportSyncFails
  <2>2. open' \in BOOLEAN
    BY <1>8, Zenon DEF ExportSyncFails
  <2>3. faults' \in 0 .. MaxFaults
    BY <2>1
  <2>4. file' = file /\ synced' \in 0 .. Len(file')
    BY <1>1, <2>1
  <2> QED
    BY <1>1, <2>1, <2>2, <2>3, <2>4
<1>9. CASE TruncateWal
  <2>1. << >> \in Seq(Line) /\ Len(<< >>) = 0
    BY EmptySeq
  <2>2. CASE file' = << >> /\ synced' = 0 /\ UNCHANGED faults
    BY <1>9, <2>1, <2>2 DEF TruncateWal
  <2>3. CASE faults < MaxFaults /\ faults' = faults + 1 /\ UNCHANGED <<file, synced>>
    BY <1>9, <2>1, <2>3 DEF TruncateWal
  <2> QED
    BY <1>9, <2>2, <2>3 DEF TruncateWal
<1>10. CASE Crash
  <2>1. << >> \in Seq(Line) /\ Len(<< >>) = 0
    BY EmptySeq
  <2>2. ASSUME NEW n \in synced .. Len(file)
        PROVE  SubSeq(file, 1, n) \in Seq(Line) /\ Len(SubSeq(file, 1, n)) = n
    BY <1>0, PrefixProperties
  <2>3. CASE UNCHANGED <<file, synced>>
    BY <1>10, <2>1, <2>3 DEF Crash
  <2>4. ASSUME NEW n \in synced .. Len(file),
               file' = SubSeq(file, 1, n), synced' = n
        PROVE  file' \in Seq(Line) /\ synced' \in 0 .. Len(file')
    <3>1. n \in Nat
      BY <1>0
    <3> QED
      BY <2>2, <2>4, <3>1
  <2>5. file' \in Seq(Line) /\ synced' \in 0 .. Len(file')
    BY <1>10, <2>3, <2>4 DEF Crash
  <2> QED
    BY <1>10, <2>1, <2>5 DEF Crash
<1>11. CASE UNCHANGED vars
  BY <1>11 DEF vars
<1> QED
  BY <1>2, <1>3, <1>4, <1>5, <1>6, <1>7, <1>8, <1>9, <1>10, <1>11
  DEF Next, ExportStep

(* The state of the buffered log is well formed in every behaviour. *)
THEOREM TypeCorrect == Spec => []TypeOK
<1>1. Init => TypeOK
  BY BoundsAssumption, EmptySeq DEF Init, TypeOK, Exporting
<1> QED
  BY <1>1, TypeStep, PTL DEF Spec

-----------------------------------------------------------------------------
(* What the accepted lines are when nothing of the buffer is written yet,  *)
(* when nothing is buffered, and when all of the buffer is written.        *)
LEMMA AcceptedCases ==
  ASSUME TypeOK
  PROVE  /\ Accepted \in Seq(Line)
         /\ Len(Accepted) = Len(file) + (Len(buffer) - pos)
         /\ pos = 0 => Accepted = file \o buffer
         /\ buffer = << >> => Accepted = file
         /\ pos = Len(buffer) => Accepted = file
<1>1. /\ file \in Seq(Line) /\ buffer \in Seq(Line) /\ pos \in 0 .. Len(buffer)
      /\ Len(file) \in Nat /\ Len(buffer) \in Nat
  BY LenProperties DEF TypeOK
<1>2. Pending \in Seq(Line) /\ Len(Pending) = Len(buffer) - pos
  BY <1>1, RestProperties DEF Pending
<1>3. pos = 0 => Pending = buffer
  BY <1>1, RestProperties DEF Pending
<1>4. pos = Len(buffer) => Pending = << >>
  BY <1>1, SubSeqEmpty DEF Pending
<1>5. buffer = << >> => Len(buffer) = 0 /\ pos = Len(buffer)
  BY <1>1, EmptySeq
<1>6. Accepted = file \o Pending
  BY DEF Accepted
<1>7. Accepted \in Seq(Line) /\ Len(Accepted) = Len(file) + Len(Pending)
  BY <1>1, <1>2, <1>6, ConcatProperties
<1>8. Pending = << >> => Accepted = file
  BY <1>1, <1>6, ConcatEmptySeq
<1> QED
  BY <1>2, <1>3, <1>4, <1>5, <1>6, <1>7, <1>8

(* The end of an export changes neither the accepted lines nor the file. *)
LEMMA FinishKeepsAccepted ==
  ASSUME TypeOK, NEW ok \in BOOLEAN, FinishExport(ok)
  PROVE  Accepted' = Accepted /\ file' = file
<1>1. /\ file' = file /\ pos' = 0 /\ buffer' = Pending
      /\ buffer \in Seq(Line) /\ pos \in 0 .. Len(buffer)
  BY DEF FinishExport, TypeOK, Pending
<1>2. buffer' \in Seq(Line) /\ Len(buffer') \in Nat
  BY <1>1, RestProperties, LenProperties DEF Pending
<1>3. SubSeq(buffer', pos' + 1, Len(buffer')) = buffer'
  BY <1>1, <1>2, RestProperties
<1> QED
  BY <1>1, <1>3 DEF Accepted, Pending

(* Writing the next line of the buffer moves it, and no line is added. *)
LEMMA WriteKeepsAccepted ==
  ASSUME TypeOK, WriteRaw
  PROVE  Accepted' = Accepted
<1>1. /\ pos < Len(buffer) /\ pos' = pos + 1 /\ buffer' = buffer
      /\ file' = Append(file, buffer[pos + 1])
  BY DEF WriteRaw
<1>2. /\ file \in Seq(Line) /\ buffer \in Seq(Line) /\ pos \in Nat
      /\ Len(buffer) \in Nat
  BY LenProperties DEF TypeOK
<1>3. Append(file, buffer[pos + 1]) \o SubSeq(buffer, pos + 2, Len(buffer))
         = file \o SubSeq(buffer, pos + 1, Len(buffer))
  BY <1>1, <1>2, WriteNextLine
<1>4. pos' + 1 = pos + 2
  BY <1>1, <1>2
<1> QED
  BY <1>1, <1>3, <1>4 DEF Accepted, Pending

(* A step of the buffered log is a step of DurableLog or leaves it alone. *)
LEMMA StepRefines == TypeOK /\ TypeOK' /\ [Next]_vars => [DL!LogNext]_(DL!logVars)
<1> SUFFICES ASSUME TypeOK, TypeOK', [Next]_vars
             PROVE  DL!LogNext \/ UNCHANGED <<Accepted, synced>>
  BY DEF DL!logVars
<1>0. /\ file \in Seq(Line) /\ buffer \in Seq(Line)
      /\ pos \in 0 .. Len(buffer) /\ (mu = "free" => pos = 0)
      /\ Len(file) \in Nat /\ Len(buffer) \in Nat /\ synced \in 0 .. Len(file)
  BY LenProperties DEF TypeOK
<1>1. /\ Len(Accepted) = Len(file) + (Len(buffer) - pos)
      /\ Len(Accepted) \in Nat /\ Len(file) <= Len(Accepted)
  BY <1>0, AcceptedCases
<1>2. ASSUME NEW ok \in BOOLEAN, FinishExport(ok) PROVE Accepted' = Accepted
  BY <1>2, FinishKeepsAccepted
<1>3. ASSUME NEW l \in Line, WriteToWal(l) PROVE DL!Accept(l)
  <2>1. /\ pos = 0 /\ pos' = 0 /\ file' = file /\ synced' = synced
        /\ buffer' = Append(buffer, l)
    BY <1>0, <1>3 DEF WriteToWal, fileVars
  <2>2. Accepted = file \o buffer
    BY <2>1, AcceptedCases
  <2>3. buffer' \in Seq(Line)
    BY <1>0, <2>1, AppendProperties
  <2>4. SubSeq(buffer', pos' + 1, Len(buffer')) = buffer'
    <3>1. Len(buffer') \in Nat /\ 0 \in 0 .. Len(buffer')
      BY <2>3, LenProperties
    <3> QED
      BY <2>1, <2>3, <3>1, RestProperties
  <2>5. Accepted' = file \o Append(buffer, l)
    BY <2>1, <2>4 DEF Accepted, Pending
  <2>6. Accepted' = Append(Accepted, l)
    BY <1>0, <2>2, <2>5, AcceptLine
  <2> QED
    BY <2>1, <2>6 DEF DL!Accept
<1>4. ASSUME NEW method \in Exporting, StartExport(method)
      PROVE  UNCHANGED <<Accepted, synced>>
  BY <1>4 DEF StartExport, fileVars, Accepted, Pending
<1>5. CASE WriteRaw
  BY <1>5, WriteKeepsAccepted DEF WriteRaw
<1>6. CASE ExportNothing
  BY <1>2, <1>6 DEF ExportNothing
<1>7. CASE WriteRawFails
  BY <1>2, <1>7 DEF WriteRawFails
<1>8. CASE ExportSyncs
  <2>1. FinishExport(TRUE) /\ synced' = Len(file)
    BY <1>8 DEF ExportSyncs
  <2>2. Accepted' = Accepted
    BY <1>2, <2>1
  <2>3. synced' \in synced .. Len(Accepted)
    BY <1>0, <1>1, <2>1
  <2>4. DL!Persist
    BY <2>2, <2>3 DEF DL!Persist
  <2> QED
    BY <2>4 DEF DL!LogNext
<1>9. CASE ExportSyncFails
  BY <1>2, <1>9 DEF ExportSyncFails
<1>10. ASSUME buffer' = << >>, NEW n \in synced .. Len(file),
              file' = SubSeq(file, 1, n), synced' \in synced .. n
       PROVE  DL!LoseTail
  <2>1. n \in 0 .. Len(file) /\ n \in synced .. Len(Accepted)
    BY <1>0, <1>1, <1>10
  <2>2. Pending \in Seq(Line)
    BY <1>0, RestProperties DEF Pending
  <2>3. SubSeq(Accepted, 1, n) = file'
    BY <1>0, <1>10, <2>1, <2>2, PrefixOfConcat DEF Accepted
  <2>4. Accepted' = file'
    <3>1. Len(buffer') = 0 /\ pos' = 0 /\ file' \in Seq(Line)
      BY <1>10, EmptySeq DEF TypeOK
    <3>2. SubSeq(buffer', pos' + 1, Len(buffer')) = << >>
      BY <3>1, SubSeqEmpty
    <3> QED
      BY <3>1, <3>2, ConcatEmptySeq DEF Accepted, Pending
  <2> QED
    BY <1>10, <2>1, <2>3, <2>4 DEF DL!LoseTail
<1>11. file = SubSeq(file, 1, Len(file)) /\ synced \in synced .. Len(file)
       /\ Len(file) \in synced .. Len(file)
  BY <1>0, SubSeqFull
<1>12. CASE TruncateWal
  <2>1. CASE file' = << >> /\ synced' = 0 /\ UNCHANGED faults
    <3>1. buffer' = << >> /\ Len(buffer') = 0 /\ pos' = 0
      BY <1>0, <1>12, EmptySeq DEF TruncateWal
    <3>2. SubSeq(buffer', pos' + 1, Len(buffer')) = << >>
      BY <3>1, SubSeqEmpty
    <3>3. Accepted' = << >>
      BY <2>1, <3>2, EmptySeq, ConcatEmptySeq DEF Accepted, Pending
    <3> QED
      BY <2>1, <3>3 DEF DL!Truncate, DL!LogNext
  <2>2. CASE UNCHANGED <<file, synced>>
    BY <1>10, <1>11, <1>12, <2>2 DEF TruncateWal, DL!LogNext
  <2> QED
    BY <1>12, <2>1, <2>2 DEF TruncateWal
<1>13. CASE Crash
  <2>1. CASE UNCHANGED <<file, synced>>
    BY <1>10, <1>11, <1>13, <2>1 DEF Crash, DL!LogNext
  <2>2. ASSUME NEW n \in synced .. Len(file),
               file' = SubSeq(file, 1, n), synced' = n
        PROVE  DL!LoseTail
    <3>1. synced' \in synced .. n
      BY <1>0, <2>2
    <3> QED
      BY <1>10, <1>13, <2>2, <3>1 DEF Crash
  <2> QED
    BY <1>13, <2>1, <2>2 DEF Crash, DL!LogNext
<1>14. CASE UNCHANGED vars
  BY <1>14 DEF vars, Accepted, Pending
<1> QED
  BY <1>3, <1>4, <1>5, <1>6, <1>7, <1>8, <1>9, <1>12, <1>13, <1>14
  DEF Next, ExportStep, DL!LogNext

(* The buffered log implements DurableLog: no line is lost, repeated or    *)
(* reordered by buffering, partial exports and retries, and a durable line *)
(* goes only by truncation.                                                *)
THEOREM Refinement == Spec => ImplementsDurableLog
<1>1. Init => DL!LogInit
  <2> SUFFICES ASSUME Init PROVE DL!LogInit
    OBVIOUS
  <2>1. file = << >> /\ buffer = << >> /\ pos = 0 /\ synced = 0 /\ Len(buffer) = 0
    BY EmptySeq DEF Init
  <2>2. SubSeq(buffer, pos + 1, Len(buffer)) = << >>
    BY <2>1, SubSeqEmpty
  <2>3. Accepted = << >>
    BY <2>1, <2>2, EmptySeq, ConcatEmptySeq DEF Accepted, Pending
  <2> QED
    BY <2>1, <2>3 DEF DL!LogInit
<1> QED
  BY <1>1, TypeCorrect, StepRefines, PTL DEF Spec, ImplementsDurableLog, DL!LogSpec

(* Exports, successful or not, neither add nor lose an accepted line. *)
THEOREM ExportsKeepLines == Spec => ExportKeepsLines
<1>1. ASSUME TypeOK, [Next]_vars
      PROVE  [mu # "free" => Accepted' = Accepted \/ crashes' # crashes]_vars
  <2> SUFFICES ASSUME Next, mu # "free", crashes' = crashes
               PROVE  Accepted' = Accepted
    BY <1>1
  <2>1. ASSUME NEW ok \in BOOLEAN, FinishExport(ok) PROVE Accepted' = Accepted
    BY <1>1, <2>1, FinishKeepsAccepted
  <2>2. CASE WriteRaw
    BY <1>1, <2>2, WriteKeepsAccepted
  <2>3. CASE ExportNothing
    BY <2>1, <2>3 DEF ExportNothing
  <2>4. CASE WriteRawFails
    BY <2>1, <2>4 DEF WriteRawFails
  <2>5. CASE ExportSyncs
    BY <2>1, <2>5 DEF ExportSyncs
  <2>6. CASE ExportSyncFails
    BY <2>1, <2>6 DEF ExportSyncFails
  <2>7. ~Crash
    <3>1. crashes \in Nat
      BY <1>1 DEF TypeOK
    <3> QED
      BY <3>1 DEF Crash
  <2> QED
    BY <2>2, <2>3, <2>4, <2>5, <2>6, <2>7
    DEF Next, ExportStep, WriteToWal, StartExport, TruncateWal
<1> QED
  BY <1>1, TypeCorrect, PTL DEF Spec, ExportKeepsLines

(* Every successful recovery reads all that was accepted. *)
THEOREM RecoveryComplete == Spec => RecoveryIsComplete
<1>1. ASSUME TypeOK, [Next]_vars
      PROVE  [recovered' # recovered => recovered' = Accepted \/ crashes' # crashes]_vars
  <2> SUFFICES ASSUME Next, recovered' # recovered, crashes' = crashes
               PROVE  recovered' = Accepted
    BY <1>1
  <2>1. CASE ExportNothing
    BY <1>1, <2>1, AcceptedCases DEF ExportNothing, FinishExport
  <2>2. CASE ExportSyncs
    BY <1>1, <2>2, AcceptedCases DEF ExportSyncs, FinishExport
  <2>3. CASE WriteRawFails
    BY <2>3 DEF WriteRawFails, FinishExport
  <2>4. CASE ExportSyncFails
    BY <2>4 DEF ExportSyncFails, FinishExport
  <2>5. CASE Crash
    <3>1. crashes' = crashes + 1 /\ crashes \in Nat
      BY <1>1, <2>5 DEF Crash, TypeOK
    <3> QED
      BY <3>1
  <2> QED
    BY <2>1, <2>2, <2>3, <2>4, <2>5
    DEF Next, ExportStep, WriteToWal, StartExport, WriteRaw, TruncateWal
<1> QED
  BY <1>1, TypeCorrect, PTL DEF Spec, RecoveryIsComplete
=============================================================================
