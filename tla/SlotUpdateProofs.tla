-------------------------- MODULE SlotUpdateProofs --------------------------
(***************************************************************************)
(* Proofs that the disk implements SlotSpec, that an update touches only   *)
(* its target and that installations are whole, for every number of jobs,  *)
(* tries and faults.                                                       *)
(***************************************************************************)
EXTENDS SlotUpdate, TLAPS

(* Zenon finds most of the steps; those that need arithmetic or a theory    *)
(* of functions cite SMT.                                                  *)
USE Zenon

Streaming == {"open", "copy", "verify"}
Early == {"wipe", "layout", "stream"} \cup Streaming
Late == {"seed", "seedCopy", "seedUnmark", "fstab", "grub", "fallback", "report"}

(* A job has an attempt that runs, or one that can run again. *)
Open == phase \in {"run", "failed"}

(* The shape of the state. *)
Shape ==
    /\ table \in {"none", "image", "layout", "ab"}
    /\ part \in [Parts -> Content]
    /\ data \in [files : {"nofs", "empty", "part", "left", "full"}, marker : BOOLEAN]
    /\ job \in 0 .. MaxJobs /\ cfg \in Configs /\ cmd \in Slots \cup {None}
    /\ phase \in {"idle", "run", "failed", "done", "os", "off"} /\ pc \in Early \cup Late
    /\ current \in Slots \cup {None}
    /\ faults \in Nat

(* Where an attempt is agrees with its checkpoint. *)
Sequence ==
    Open \/ phase = "done" =>
        /\ job # 0
        /\ pc # "wipe" => "wipe" \in completed
        /\ pc \in {"stream"} \cup Streaming => "layout" \in completed
        /\ pc \in Early => "stream" \notin completed
        /\ pc \in Late => "stream" \in completed
        /\ "stream" \in completed => {"wipe", "layout"} \subseteq completed
        /\ "stream" \in completed => ~bad
        /\ phase = "done" => pc = "report"

(* A partition has no image of a job to come, and a slot reports itself. *)
Contents ==
    /\ \A p \in Parts : /\ part[p].job <= job
                        /\ part[p].fill # "none" => part[p].job # 0
    /\ \A s \in Slots : part[s].env \in {None, s}

(* An image is written to the partitions of its job only. *)
Targets ==
    /\ phase = "run" => todo \subseteq Written /\ dirty \subseteq Written
    /\ phase = "run" /\ pc \in {"copy", "verify"} => \A p \in dirty : part[p].job # 0

(* Before its image is complete, a job leaves no slot that looks installed. *)
NotYet ==
    Open /\ "stream" \notin completed =>
        /\ ~cfg.preserve /\ "wipe" \in completed => \A s \in Slots : ~part[s].grub
        /\ cfg.preserve /\ phase = "run" /\ pc \in Streaming => ~part[Target].grub

(* What a job knows of the slot that runs. *)
Knowledge ==
    Open /\ cfg.preserve /\ known =>
        current \in {None, cfg.active} \/ (cmd # None /\ current = cmd)

(* A seed that is not complete is marked, and a job that seeds the shared     *)
(* data goes on only when it is complete or its remains could not be removed. *)
Seeding ==
    /\ data.files = "part" => data.marker
    /\ phase = "run" /\ pc = "seedCopy" => Seeds /\ data.marker /\ data.files \in {"empty", "part"}
    /\ phase = "run" /\ pc = "seedUnmark" => Seeds /\ data.marker /\ data.files = "full"
    /\ (phase = "run" /\ pc \in {"fstab", "grub", "fallback", "report"}) \/ phase = "done" =>
        (Seeds => data.files \in {"full", "left"} /\ ~data.marker)

(* The partitions that hold something of the image of this job. *)
Mine == {p \in Parts : part[p].job = job /\ part[p].fill # "none"}

(* Without faults the image of a job that is not complete is on the          *)
(* partitions being written, and nowhere once the job has failed; an update   *)
(* that has written its slot passes its checks again.                        *)
Remains ==
    Open /\ faults = 0 /\ cfg.mode # "partition" =>
        /\ cfg.preserve /\ Mine # {} => Mine = {Target} /\ validateABPreserveExistingLayout
        /\ phase = "run" /\ pc \in Streaming => Mine \subseteq dirty /\ validateABPreserveExistingLayout
        /\ phase = "run" /\ pc = "open" => Mine = {}
        /\ ~cfg.preserve /\ "wipe" \in completed /\ "stream" \notin completed
            /\ ~(phase = "run" /\ pc \in Streaming) => Mine = {}
        /\ phase = "failed" /\ pc \in Early \ {"wipe", "layout"} => Mine = {}

IInv == Shape /\ Sequence /\ Contents /\ Targets /\ NotYet /\ Knowledge /\ Seeding /\ Remains

-----------------------------------------------------------------------------
(* The numbers of the steps. *)
LEMMA Sums ==
    /\ 1 + 1 = 2 /\ 2 + 1 = 3 /\ 3 + 1 = 4 /\ 4 + 1 = 5
    /\ 5 + 1 = 6 /\ 6 + 1 = 7 /\ 7 + 1 = 8
  BY SMT

(* A step that is not skipped is the next one; a skipped one is passed over. *)
LEMMA TakeStep ==
    ASSUME NEW done, NEW i \in 1 .. 8, Steps[i] \notin done \/ Steps[i] \in RunAgain
    PROVE  FirstFrom(i, done) = Steps[i]
<1> DEFINE open == {k \in DOMAIN Steps : k >= i /\ (Steps[k] \notin done \/ Steps[k] \in RunAgain)}
<1>1. DOMAIN Steps = 1 .. 8
  BY SMT DEF Steps
<1>2. i \in open /\ \A k \in open : i <= k
  BY <1>1, SMT
<1>3. (CHOOSE m \in open : \A k \in open : m <= k) = i
  <2>1. \A m \in open : (\A k \in open : m <= k) => m = i
    BY <1>1, <1>2, SMT
  <2>2. QED
    BY <1>2, <2>1
<1>4. QED
  BY <1>3 DEF FirstFrom

LEMMA SkipStep ==
    ASSUME NEW done, NEW i \in 1 .. 7, Steps[i] \in done, Steps[i] \notin RunAgain
    PROVE  FirstFrom(i, done) = FirstFrom(i + 1, done)
<1> DEFINE open(n) == {k \in DOMAIN Steps : k >= n /\ (Steps[k] \notin done \/ Steps[k] \in RunAgain)}
<1>1. DOMAIN Steps = 1 .. 8
  BY SMT DEF Steps
<1>2. open(i) = open(i + 1)
  BY <1>1, SMT
<1>3. QED
  BY <1>2 DEF FirstFrom

(* The steps by name. *)
LEMMA StepFacts ==
    /\ Steps[1] = "wipe" /\ Steps[2] = "layout" /\ Steps[3] = "stream" /\ Steps[4] = "seed"
    /\ Steps[5] = "fstab" /\ Steps[6] = "grub" /\ Steps[7] = "fallback" /\ Steps[8] = "report"
    /\ Position("wipe") = 1 /\ Position("layout") = 2 /\ Position("stream") = 3
    /\ Position("seed") = 4 /\ Position("fstab") = 5 /\ Position("grub") = 6
    /\ Position("fallback") = 7
  BY SMT DEF Steps, Position

(* Which step is next. *)
LEMMA NextSteps ==
    ASSUME NEW done
    PROVE  /\ FirstFrom(1, done) = IF "wipe" \notin done THEN "wipe" ELSE FirstFrom(2, done)
           /\ FirstFrom(2, done) = IF "layout" \notin done THEN "layout" ELSE FirstFrom(3, done)
           /\ FirstFrom(3, done) = IF "stream" \notin done THEN "stream" ELSE "seed"
           /\ FirstFrom(4, done) = "seed"
           /\ FirstFrom(5, done) = IF "fstab" \notin done THEN "fstab" ELSE "grub"
           /\ FirstFrom(6, done) = "grub"
           /\ FirstFrom(7, done) = IF "fallback" \notin done THEN "fallback" ELSE "report"
           /\ FirstFrom(8, done) = "report"
<1> USE StepFacts DEF RunAgain
<1>1. FirstFrom(4, done) = "seed" /\ FirstFrom(6, done) = "grub" /\ FirstFrom(8, done) = "report"
  BY TakeStep, SMT
<1>2. FirstFrom(1, done) = IF "wipe" \notin done THEN "wipe" ELSE FirstFrom(2, done)
  BY TakeStep, SkipStep, Sums, SMT
<1>3. FirstFrom(2, done) = IF "layout" \notin done THEN "layout" ELSE FirstFrom(3, done)
  BY TakeStep, SkipStep, Sums, SMT
<1>4. FirstFrom(3, done) = IF "stream" \notin done THEN "stream" ELSE "seed"
  BY <1>1, TakeStep, SkipStep, Sums, SMT
<1>5. FirstFrom(5, done) = IF "fstab" \notin done THEN "fstab" ELSE "grub"
  BY <1>1, TakeStep, SkipStep, Sums, SMT
<1>6. FirstFrom(7, done) = IF "fallback" \notin done THEN "fallback" ELSE "report"
  BY <1>1, TakeStep, SkipStep, Sums, SMT
<1>7. QED
  BY <1>1, <1>2, <1>3, <1>4, <1>5, <1>6

(* What the checks of the configuration leave. *)
LEMMA ConfigFacts ==
    ASSUME cfg \in Configs
    PROVE  /\ cfg.mode \in Modes /\ cfg.preserve \in BOOLEAN /\ cfg.active \in Slots \cup {None}
           /\ Target \in Slots /\ Written \subseteq Parts /\ Target \in Written
           /\ cfg.preserve => /\ cfg.mode = "ab" /\ cfg.active \in Slots
                              /\ Target # cfg.active /\ Written = {Target}
<1>1. cfg.mode \in Modes /\ cfg.preserve \in BOOLEAN /\ cfg.active \in Slots \cup {None}
  <2>1. cfg.mode \in Modes
    BY SMT DEF Configs, Modes
  <2>2. cfg.preserve = TRUE \/ cfg.preserve = FALSE
    BY SMT DEF Configs
  <2>3. cfg.active \in Slots \cup {None}
    BY SMT DEF Configs
  <2>4. QED
    BY <2>1, <2>2, <2>3
<1>2. Target \in Slots
  BY <1>1, SlotUpdateAssumption DEF Target, ResolvedTargetSlot, Other, Slots
<1>3. cfg.preserve => cfg.mode = "ab" /\ cfg.active \in Slots /\ cfg.slot = "inactive"
  BY SMT DEF Configs
<1>4. cfg.preserve => Target # cfg.active
  BY <1>3, SlotUpdateAssumption DEF Target, ResolvedTargetSlot, Other, Slots
<1>5. cfg.preserve => Written = {Target}
  BY <1>3 DEF Written
<1>6. Written \subseteq Parts /\ Target \in Written
  BY <1>2 DEF Written, Parts
<1>7. QED
  BY <1>1, <1>2, <1>3, <1>4, <1>5, <1>6

-----------------------------------------------------------------------------
(* The first job finds an empty disk. *)
LEMMA InitIInv == Init => IInv
<1>1. SUFFICES ASSUME Init PROVE IInv
  OBVIOUS
<1>2. Blank \in Content
  BY SlotUpdateAssumption, SMT DEF Blank, Content
<1>3. Shape
  <2>1. part \in [Parts -> Content]
    BY <1>1, <1>2 DEF Init
  <2>2. job \in 0 .. MaxJobs
    BY <1>1, SlotUpdateAssumption, SMT DEF Init
  <2>3. QED
    BY <1>1, <2>1, <2>2 DEF Init, Shape, Early
<1>4. Contents
  BY <1>1, SMT DEF Init, Contents, Blank, Parts
<1>5. Sequence /\ Targets /\ NotYet /\ Knowledge /\ Remains
  BY <1>1 DEF Init, Sequence, Targets, NotYet, Knowledge, Remains, Open
<1>6. Seeding
  BY <1>1 DEF Init, Seeding
<1>7. QED
  BY <1>3, <1>4, <1>5, <1>6 DEF IInv

(* Where a new attempt begins. *)
LEMMA AttemptFacts ==
    ASSUME NEW done, StartAttempt(done)
    PROVE  /\ phase' = "run" /\ completed' = done /\ todo' = {} /\ dirty' = {}
           /\ pc' \in {"wipe", "layout", "stream", "seed"}
           /\ pc' # "wipe" => "wipe" \in done
           /\ pc' \in {"stream", "seed"} => "layout" \in done
           /\ pc' = "seed" <=> {"wipe", "layout", "stream"} \subseteq done
  BY NextSteps DEF StartAttempt

(* A new job changes nothing on the disk and has no image there. *)
LEMMA NewJobStep == ASSUME IInv, NewJob PROVE IInv'
<1>1. /\ phase' = "run" /\ completed' = {} /\ todo' = {} /\ dirty' = {} /\ pc' = "wipe"
      /\ table' = table /\ part' = part /\ data' = data /\ current' = current /\ faults' = faults
      /\ job < MaxJobs /\ job' = job + 1 /\ cfg' \in Configs /\ bad' = FALSE
  BY AttemptFacts DEF NewJob, disk
<1>2. cmd' \in {None, current} /\ known' = (cfg'.active = current \/ cmd' # None)
  BY DEF NewJob
<1>3. Shape'
  <2>1. job' \in 0 .. MaxJobs
    BY <1>1, SlotUpdateAssumption, SMT DEF IInv, Shape
  <2>2. QED
    BY <1>1, <1>2, <2>1 DEF IInv, Shape, Early
<1>4. Sequence'
  BY <1>1, SMT DEF IInv, Shape, Sequence, Open, Early, Late, Streaming
<1>5. Contents'
  BY <1>1, SlotUpdateAssumption, SMT DEF IInv, Shape, Contents, Content, Parts, Slots
<1>6. Targets' /\ NotYet'
  BY <1>1 DEF Targets, NotYet, Streaming
<1>7. Knowledge'
  BY <1>1, <1>2 DEF Knowledge
<1>8. Seeding'
  BY <1>1 DEF IInv, Seeding
<1>9. Remains'
  <2>1. Mine' = {}
    BY <1>1, SlotUpdateAssumption, SMT DEF IInv, Shape, Contents, Content, Mine
  <2>2. QED
    BY <1>1, <2>1 DEF Remains, Streaming
<1>10. QED
  BY <1>3, <1>4, <1>5, <1>6, <1>7, <1>8, <1>9 DEF IInv

(* The job runs again, from its checkpoint or from the start. *)
LEMMA AgainStep == ASSUME IInv, Again PROVE IInv'
<1>1. PICK resume \in BOOLEAN : StartAttempt(IF resume THEN completed ELSE {})
  BY DEF Again
<1>2. /\ phase = "failed"
      /\ table' = table /\ part' = part /\ data' = data
      /\ UNCHANGED <<job, cfg, cmd, bad, current, known, faults>>
  BY DEF Again, disk
<1>3. /\ phase' = "run" /\ completed' \in {completed, {}} /\ todo' = {} /\ dirty' = {}
      /\ pc' \in {"wipe", "layout", "stream", "seed"}
      /\ pc' # "wipe" => "wipe" \in completed'
      /\ pc' \in {"stream", "seed"} => "layout" \in completed'
      /\ pc' = "seed" <=> {"wipe", "layout", "stream"} \subseteq completed'
  BY <1>1, AttemptFacts
<1>4. Shape'
  BY <1>2, <1>3 DEF IInv, Shape, Early, Late
<1>5. Sequence'
  BY <1>2, <1>3 DEF IInv, Sequence, Open, Early, Late, Streaming
<1>6. Contents'
  BY <1>2 DEF IInv, Contents
<1>7. Targets' /\ NotYet'
  BY <1>2, <1>3 DEF IInv, Targets, NotYet, Open, Streaming
<1>8. Knowledge'
  BY <1>2 DEF IInv, Knowledge, Open
<1>9. Seeding'
  BY <1>2, <1>3 DEF IInv, Seeding
<1>10. Remains'
  <2>1. Mine' = Mine /\ validateABPreserveExistingLayout' = validateABPreserveExistingLayout /\ Target' = Target
    BY <1>2 DEF Mine, validateABPreserveExistingLayout, validateABActiveSlotState,
                validateABBootedSlotSignal, Target
  <2>2. QED
    BY <1>2, <1>3, <2>1 DEF IInv, Remains, Open, Streaming
<1>11. QED
  BY <1>4, <1>5, <1>6, <1>7, <1>8, <1>9, <1>10 DEF IInv

(* The firmware reaches slots only. *)
LEMMA FirmwareFacts == Firmware \subseteq Slots
  BY DEF Firmware, Slots

(* The attempt or the installed system ends, with the disk as it is. *)
LEMMA LeaveStep ==
    ASSUME IInv, PowerLoss \/ kexecHandoff \/ rebootHandoff \/ powerOff \/ rebootHost
    PROVE  IInv'
<1>1. /\ phase' \in {"idle", "os", "off"} /\ pc' = pc
      /\ table' = table /\ part' = part /\ data' = data
      /\ UNCHANGED <<job, cfg, cmd>>
  BY DEF PowerLoss, kexecHandoff, rebootHandoff, powerOff, rebootHost, boot, disk, run
<1>2. current' \in Slots \cup {None} /\ faults' \in Nat
  <2>1. Target \in Slots
    BY ConfigFacts DEF IInv, Shape
  <2>2. QED
    BY <2>1, FirmwareFacts, SMT DEF PowerLoss, kexecHandoff, rebootHandoff, powerOff, rebootHost, boot,
       IInv, Shape
<1>3. Shape'
  BY <1>1, <1>2 DEF IInv, Shape
<1>4. Contents'
  BY <1>1 DEF IInv, Contents
<1>5. Sequence' /\ Targets' /\ NotYet' /\ Knowledge' /\ Remains'
  BY <1>1 DEF Sequence, Targets, NotYet, Knowledge, Remains, Open
<1>6. Seeding'
  BY <1>1 DEF IInv, Seeding
<1>7. QED
  BY <1>3, <1>4, <1>5, <1>6 DEF IInv

(* A step fails, or the last one has reported success. *)
LEMMA OutcomeStep == ASSUME IInv, StepFails \/ reportSuccess PROVE IInv'
<1>1. /\ phase = "run" /\ phase' \in {"failed", "done"} /\ pc' = pc /\ completed' = completed
      /\ pc \notin {"stream"} \cup Streaming /\ (phase' = "done" => pc = "report")
      /\ table' = table /\ part' = part /\ data' = data
      /\ UNCHANGED <<job, cfg, cmd, bad, current, known, faults>>
  BY DEF StepFails, reportSuccess, Running, disk, run, Streaming
<1>2. Shape' /\ Contents'
  BY <1>1 DEF IInv, Shape, Contents
<1>3. Sequence'
  BY <1>1 DEF IInv, Sequence, Open, Early, Late, Streaming
<1>4. Targets' /\ NotYet' /\ Knowledge'
  BY <1>1 DEF IInv, Targets, NotYet, Knowledge, Open
<1>5. Seeding'
  <2>1. Seeds' = Seeds
    BY <1>1 DEF Seeds
  <2>2. QED
    BY <1>1, <2>1 DEF IInv, Seeding
<1>6. Remains'
  <2>1. Mine' = Mine /\ validateABPreserveExistingLayout' = validateABPreserveExistingLayout /\ Target' = Target
    BY <1>1 DEF Mine, validateABPreserveExistingLayout, validateABActiveSlotState,
                validateABBootedSlotSignal, Target
  <2>2. QED
    BY <1>1, <2>1 DEF IInv, Remains, Open, Streaming, Early
<1>7. QED
  BY <1>2, <1>3, <1>4, <1>5, <1>6 DEF IInv

(* wipe-disks empties the disk of an initial provisioning. *)
LEMMA WipeStep == ASSUME IInv, wipeDisks PROVE IInv'
<1>1. /\ phase = "run" /\ phase' = "run" /\ pc = "wipe" /\ completed' = completed \cup {"wipe"}
      /\ UNCHANGED <<job, cfg, cmd, bad, known, todo, dirty, faults>>
      /\ cfg.preserve => UNCHANGED <<table, part, data, current>>
      /\ ~cfg.preserve => EmptyDisk /\ current' = None
  BY DEF wipeDisks, Finish, Running, disk
<1>2. "stream" \notin completed
  BY <1>1 DEF IInv, Sequence, Open, Early
<1>3. pc' \in {"layout", "stream"} /\ (pc' = "stream" => "layout" \in completed)
  BY <1>1, <1>2, NextSteps, StepFacts, SMT DEF wipeDisks, Finish
<1>4. /\ Target' = Target /\ Written' = Written /\ Seeds' = Seeds
      /\ Target \in Slots /\ cfg.preserve \in BOOLEAN
  BY <1>1, ConfigFacts DEF Target, Written, Seeds, IInv, Shape
<1>5. CASE cfg.preserve
  <2>1. Shape' /\ Contents'
    BY <1>1, <1>3, <1>5 DEF IInv, Shape, Contents, Early
  <2>2. Sequence'
    BY <1>1, <1>2, <1>3 DEF IInv, Sequence, Open, Early, Late, Streaming
  <2>3. Targets' /\ NotYet' /\ Knowledge'
    BY <1>1, <1>3, <1>4, <1>5 DEF IInv, Targets, NotYet, Knowledge, Open, Streaming
  <2>4. Seeding'
    BY <1>1, <1>3, <1>5 DEF IInv, Seeding
  <2>5. Remains'
    <3>1. Mine' = Mine /\ validateABPreserveExistingLayout' = validateABPreserveExistingLayout
      BY <1>1, <1>5 DEF Mine, validateABPreserveExistingLayout, validateABActiveSlotState,
                  validateABBootedSlotSignal, Target
    <3>2. QED
      BY <1>1, <1>3, <1>4, <1>5, <3>1 DEF IInv, Remains, Open, Streaming
  <2>6. QED
    BY <2>1, <2>2, <2>3, <2>4, <2>5 DEF IInv
<1>6. CASE ~cfg.preserve
  <2>1. table' = "none" /\ part' = [p \in Parts |-> Blank] /\ data' = [files |-> "nofs", marker |-> FALSE]
    BY <1>1, <1>6 DEF EmptyDisk, NoData
  <2>2. Shape'
    <3>1. Blank \in Content
      BY SlotUpdateAssumption, SMT DEF Blank, Content
    <3>2. part' \in [Parts -> Content]
      BY <2>1, <3>1
    <3>3. QED
      BY <1>1, <1>3, <1>6, <2>1, <3>2 DEF IInv, Shape, Early
  <2>3. Contents'
    BY <1>1, <2>1, SMT DEF IInv, Shape, Contents, Blank, Parts
  <2>4. Sequence'
    BY <1>1, <1>2, <1>3 DEF IInv, Sequence, Open, Early, Late, Streaming
  <2>5. Targets' /\ Knowledge' /\ NotYet'
    BY <1>1, <1>3, <1>4, <1>6, <2>1 DEF IInv, Targets, NotYet, Knowledge, Blank, Parts
  <2>6. Seeding'
    BY <1>1, <1>3, <2>1 DEF Seeding
  <2>7. Remains'
    <3>1. Mine' = {}
      BY <1>1, <2>1 DEF Mine, Blank
    <3>2. QED
      BY <1>1, <1>3, <3>1 DEF Remains, Streaming
  <2>8. QED
    BY <2>2, <2>3, <2>4, <2>5, <2>6, <2>7 DEF IInv
<1>7. QED
  BY <1>4, <1>5, <1>6

(* What a job writes to depends on its configuration only. *)
LEMMA SameJob ==
    ASSUME cfg' = cfg
    PROVE  Target' = Target /\ Written' = Written /\ Seeds' = Seeds
  BY DEF Target, Written, Seeds

(* apply-partition-layout makes empty partitions. *)
LEMMA LayoutStep == ASSUME IInv, applyPartitionLayout PROVE IInv'
<1>1. /\ phase = "run" /\ phase' = "run" /\ pc = "layout" /\ completed' = completed \cup {"layout"}
      /\ UNCHANGED <<job, cfg, cmd, bad, known, todo, dirty, current, faults>>
  BY DEF applyPartitionLayout, Finish, Running
<1>2. "stream" \notin completed /\ "wipe" \in completed
  BY <1>1 DEF IInv, Sequence, Open, Early
<1>3. pc' = "stream"
  BY <1>1, <1>2, NextSteps, StepFacts, SMT DEF applyPartitionLayout, Finish
<1>4. Target' = Target /\ Written' = Written /\ Target \in Slots
  BY <1>1, SameJob, ConfigFacts DEF IInv, Shape
<1>5. Sequence' /\ Targets'
  BY <1>1, <1>2, <1>3, <1>4 DEF IInv, Sequence, Targets, Open, Early, Late, Streaming
<1>6. Knowledge'
  BY <1>1 DEF IInv, Knowledge, Open
<1>7. CASE UNCHANGED disk
  <2>1. table' = table /\ part' = part /\ data' = data
    BY <1>7 DEF disk
  <2>2. Shape' /\ Contents'
    BY <1>1, <1>3, <2>1 DEF IInv, Shape, Contents, Early
  <2>3. NotYet' /\ Seeding'
    BY <1>1, <1>2, <1>3, <2>1 DEF IInv, NotYet, Seeding, Open, Streaming
  <2>4. Remains'
    <3>1. Mine' = Mine /\ validateABPreserveExistingLayout' = validateABPreserveExistingLayout
      BY <1>1, <2>1 DEF Mine, validateABPreserveExistingLayout, validateABActiveSlotState,
                  validateABBootedSlotSignal, Target
    <3>2. QED
      BY <1>1, <1>2, <1>3, <1>4, <3>1 DEF IInv, Remains, Open, Streaming
  <2>5. QED
    BY <1>5, <1>6, <2>2, <2>3, <2>4 DEF IInv
<1>8. CASE ~UNCHANGED disk
  <2>1. /\ ~cfg.preserve /\ table' \in {"ab", "layout"} /\ part' = [p \in Parts |-> Blank]
        /\ data' \in {[files |-> "empty", marker |-> FALSE], [files |-> "nofs", marker |-> FALSE]}
    BY <1>8 DEF applyPartitionLayout, NoData
  <2>2. Shape'
    <3>1. Blank \in Content
      BY SlotUpdateAssumption, SMT DEF Blank, Content
    <3>2. part' \in [Parts -> Content]
      BY <2>1, <3>1
    <3>3. data' \in [files : {"nofs", "empty", "part", "left", "full"}, marker : BOOLEAN]
      <4>1. CASE data' = [files |-> "empty", marker |-> FALSE]
        BY <4>1
      <4>2. CASE data' = [files |-> "nofs", marker |-> FALSE]
        BY <4>2
      <4>3. QED
        BY <2>1, <4>1, <4>2
    <3>4. QED
      BY <1>1, <1>3, <2>1, <3>2, <3>3 DEF IInv, Shape, Early
  <2>3. Contents'
    BY <1>1, <2>1, SMT DEF IInv, Shape, Contents, Blank, Parts
  <2>4. NotYet' /\ Seeding'
    BY <1>1, <1>3, <2>1, SMT DEF NotYet, Seeding, Blank, Parts
  <2>5. Remains'
    <3>1. Mine' = {}
      BY <2>1 DEF Mine, Blank
    <3>2. QED
      BY <1>1, <1>3, <3>1 DEF Remains, Streaming
  <2>6. QED
    BY <1>5, <1>6, <2>2, <2>3, <2>4, <2>5 DEF IInv
<1>9. QED
  BY <1>7, <1>8

(* stream-image fails: it is called again or the attempt ends. *)
LEMMA StreamErrorFacts ==
    ASSUME NEW permanent, streamError(permanent)
    PROVE  /\ todo' = {} /\ dirty' = {}
           /\ (phase' = "failed" /\ pc' = pc) \/ (phase' = phase /\ pc' = "stream")
           /\ UNCHANGED <<job, cfg, cmd, known, completed>>
  BY DEF streamError

(* It leaves its targets as they are or blank; without a fault nothing of    *)
(* the image stays.                                                          *)
LEMMA StreamErrorStep ==
    ASSUME IInv, NEW permanent, streamError(permanent),
           phase = "run", pc \in {"stream"} \cup Streaming,
           data' = data, current' = current, table' \in {table, "none"}, faults' \in Nat,
           part' \in [Parts -> Content], \A p \in Parts : part'[p] \in {part[p], Blank},
           faults' = 0 /\ cfg.mode # "partition" => Mine' = {}
    PROVE  IInv'
<1>1. /\ todo' = {} /\ dirty' = {}
      /\ (phase' = "failed" /\ pc' = pc) \/ (phase' = "run" /\ pc' = "stream")
      /\ UNCHANGED <<job, cfg, cmd, known, completed>>
  BY StreamErrorFacts
<1>2. "stream" \notin completed /\ "wipe" \in completed
  BY DEF IInv, Sequence, Open, Early, Streaming
<1>3. Shape'
  BY <1>1 DEF IInv, Shape, Early
<1>4. Sequence'
  BY <1>1, <1>2 DEF IInv, Sequence, Open, Early, Late, Streaming
<1>5. Contents'
  <2>1. Blank.job = 0 /\ Blank.fill = "none" /\ Blank.env = None
    BY DEF Blank
  <2>2. QED
    BY <1>1, <2>1, SMT DEF IInv, Shape, Contents, Content, Parts
<1>6. Targets'
  BY <1>1 DEF Targets
<1>7. NotYet'
  <2>1. ~Blank.grub
    BY DEF Blank
  <2>2. QED
    BY <1>1, <1>2, <2>1 DEF IInv, NotYet, Open, Streaming, Parts
<1>8. Knowledge'
  BY <1>1 DEF IInv, Knowledge, Open
<1>9. Seeding'
  BY <1>1 DEF IInv, Seeding
<1>10. Remains'
  BY <1>1 DEF Remains, Streaming
<1>11. QED
  BY <1>3, <1>4, <1>5, <1>6, <1>7, <1>8, <1>9, <1>10 DEF IInv

(* The layout is checked and the target prepared, or stream-image fails. *)
LEMMA PrepareStep == ASSUME IInv, prepareABTargetSlot PROVE IInv'
<1>1. /\ phase = "run" /\ pc = "stream" /\ faults' = faults /\ bad' = bad
      /\ "stream" \notin completed /\ "wipe" \in completed
  BY DEF prepareABTargetSlot, Running, IInv, Sequence, Open, Early
<1>2. CASE ~validateABPreserveExistingLayout
  <2>1. streamError(FALSE) /\ table' = table /\ part' = part /\ data' = data /\ current' = current
    BY <1>2 DEF prepareABTargetSlot, disk
  <2>2. Mine' = Mine
    BY <2>1 DEF Mine, streamError
  <2>3. faults = 0 /\ cfg.mode # "partition" => Mine = {}
    BY <1>1, <1>2 DEF IInv, Remains, Open, Streaming, validateABPreserveExistingLayout
  <2>4. QED
    BY <1>1, <2>1, <2>2, <2>3, StreamErrorStep DEF IInv, Shape
<1>3. CASE validateABPreserveExistingLayout
  <2>1. /\ phase' = "run" /\ pc' = "open"
        /\ UNCHANGED <<job, cfg, cmd, known, completed, todo, dirty>>
        /\ current' = IF cfg.preserve /\ current = Target THEN None ELSE current
    BY <1>1, <1>3 DEF prepareABTargetSlot
  <2>2. /\ Target' = Target /\ Written' = Written /\ Target \in Slots
        /\ cfg.preserve => cfg.mode = "ab" /\ Target # cfg.active
    BY <2>1, SameJob, ConfigFacts DEF IInv, Shape
  <2>3. /\ cfg.mode = "partition" => EmptyDisk
        /\ cfg.preserve => part' = [part EXCEPT ![Target] = Blank] /\ table' = table /\ data' = data
        /\ cfg.mode # "partition" /\ ~cfg.preserve => UNCHANGED disk
    BY <1>3, <2>2 DEF prepareABTargetSlot
  <2>4. /\ part' \in [Parts -> Content] /\ \A p \in Parts : part'[p] \in {part[p], Blank}
        /\ table' \in {table, "none"} /\ data' \in {data, NoData}
        /\ cfg.preserve => part'[Target] = Blank /\ part'[cfg.active] = part[cfg.active]
    <3>1. Blank \in Content /\ part \in [Parts -> Content] /\ Target \in Parts
      BY <2>2, SlotUpdateAssumption, SMT DEF Blank, Content, IInv, Shape, Parts
    <3>2. CASE cfg.mode = "partition"
      BY <2>2, <2>3, <3>1, <3>2 DEF EmptyDisk
    <3>3. CASE cfg.preserve
      <4>1. cfg.active \in Parts
        BY <3>3, ConfigFacts DEF IInv, Shape, Parts
      <4>2. QED
        BY <2>2, <2>3, <3>1, <3>3, <4>1
    <3>4. CASE cfg.mode # "partition" /\ ~cfg.preserve
      BY <2>3, <3>1, <3>4 DEF disk
    <3>5. QED
      BY <3>2, <3>3, <3>4
  <2>5. Shape'
    <3>1. NoData \in [files : {"nofs", "empty", "part", "left", "full"}, marker : BOOLEAN]
      BY DEF NoData
    <3>2. QED
      BY <1>1, <2>1, <2>4, <3>1 DEF IInv, Shape, Early, Streaming
  <2>6. Sequence'
    BY <1>1, <2>1 DEF IInv, Sequence, Open, Early, Late, Streaming
  <2>7. Contents'
    <3>1. Blank.job = 0 /\ Blank.fill = "none" /\ Blank.env = None
      BY DEF Blank
    <3>2. QED
      BY <2>1, <2>4, <3>1, SMT DEF IInv, Shape, Contents, Content, Parts
  <2>8. Targets'
    BY <1>1, <2>1, <2>2 DEF IInv, Targets
  <2>9. NotYet'
    <3>1. ~Blank.grub
      BY DEF Blank
    <3>2. QED
      BY <1>1, <2>1, <2>2, <2>4, <3>1 DEF IInv, NotYet, Open, Parts
  <2>10. Knowledge'
    BY <1>1, <2>1 DEF IInv, Knowledge, Open
  <2>11. Seeding'
    BY <2>1, <2>4, SMT DEF IInv, Seeding, NoData
  <2>12. ASSUME faults = 0, cfg.mode # "partition" PROVE Mine' = {}
    <3>1. CASE cfg.preserve
      <4>1. Mine \subseteq {Target}
        BY <1>1, <2>12, <3>1 DEF IInv, Remains, Open
      <4>2. Blank.fill = "none"
        BY DEF Blank
      <4>3. QED
        BY <2>1, <2>4, <3>1, <4>1, <4>2, SMT DEF Mine
    <3>2. CASE ~cfg.preserve
      <4>1. Mine = {} /\ part' = part
        BY <1>1, <2>3, <2>12, <3>2 DEF IInv, Remains, Open, Streaming, disk
      <4>2. QED
        BY <2>1, <4>1 DEF Mine
    <3>3. QED
      BY <3>1, <3>2
  <2>13. validateABPreserveExistingLayout'
    BY <1>3, <2>1, <2>2, <2>3, <2>4 DEF validateABPreserveExistingLayout, validateABActiveSlotState,
       validateABBootedSlotSignal
  <2>14. Remains'
    BY <1>1, <2>1, <2>12, <2>13 DEF Remains, Streaming
  <2>15. QED
    BY <2>5, <2>6, <2>7, <2>8, <2>9, <2>10, <2>11, <2>14 DEF IInv
<1>4. QED
  BY <1>2, <1>3

(* The source is opened: the download fails, or the copy begins. *)
LEMMA OpenStep ==
    ASSUME IInv, openSourceFails \/ stagingFails \/ streamImage
    PROVE  IInv'
<1>1. /\ phase = "run" /\ pc = "open" /\ faults' = faults
      /\ table' = table /\ part' = part /\ data' = data /\ current' = current
      /\ "stream" \notin completed /\ "wipe" \in completed
  BY DEF openSourceFails, stagingFails, streamImage, Running, disk, IInv, Sequence, Open, Early, Streaming
<1>2. ASSUME NEW permanent, streamError(permanent) PROVE IInv'
  <2>1. Mine' = Mine
    BY <1>1, <1>2, StreamErrorFacts DEF Mine
  <2>2. faults = 0 /\ cfg.mode # "partition" => Mine = {}
    BY <1>1 DEF IInv, Remains, Open
  <2>3. QED
    BY <1>1, <1>2, <2>1, <2>2, StreamErrorStep DEF IInv, Shape, Streaming
<1>3. CASE openSourceFails
  BY <1>2, <1>3 DEF openSourceFails
<1>4. CASE stagingFails
  BY <1>2, <1>4 DEF stagingFails
<1>5. CASE streamImage
  <2>1. PICK img \in Images :
          CASE verifiedBeforeWrite(img) /\ bad' -> streamError(TRUE)
            [] ~selectSourceRootPartition(img) -> streamError(FALSE)
            [] OTHER -> /\ pc' = "copy"
                        /\ todo' = abRangeTargets(img)
                        /\ dirty' = {}
                        /\ UNCHANGED <<job, cfg, cmd, known, completed, phase>>
    BY <1>5 DEF streamImage
  <2>2. CASE streamError(TRUE) \/ streamError(FALSE)
    BY <1>2, <2>2
  <2>3. CASE /\ pc' = "copy" /\ todo' = abRangeTargets(img) /\ dirty' = {}
             /\ UNCHANGED <<job, cfg, cmd, known, completed, phase>>
    <3>1. Target' = Target /\ Written' = Written /\ Seeds' = Seeds
      BY <2>3, SameJob
    <3>2. Shape' /\ Contents'
      BY <1>1, <2>3 DEF IInv, Shape, Contents, Early, Streaming
    <3>3. Sequence'
      BY <1>1, <2>3 DEF IInv, Sequence, Open, Early, Late, Streaming
    <3>4. Targets'
      BY <2>3, <3>1 DEF Targets, abRangeTargets
    <3>5. NotYet' /\ Knowledge'
      BY <1>1, <2>3, <3>1 DEF IInv, NotYet, Knowledge, Open, Streaming
    <3>6. Seeding'
      BY <1>1, <2>3 DEF IInv, Seeding
    <3>7. Remains'
      <4>1. Mine' = Mine /\ validateABPreserveExistingLayout' = validateABPreserveExistingLayout
        BY <1>1, <2>3, <3>1 DEF Mine, validateABPreserveExistingLayout, validateABActiveSlotState,
           validateABBootedSlotSignal
      <4>2. faults = 0 /\ cfg.mode # "partition" => Mine = {} /\ validateABPreserveExistingLayout
        BY <1>1 DEF IInv, Remains, Open, Streaming
      <4>3. QED
        BY <1>1, <2>3, <4>1, <4>2 DEF Remains, Streaming
    <3>8. QED
      BY <3>2, <3>3, <3>4, <3>5, <3>6, <3>7 DEF IInv
  <2>4. QED
    BY <2>1, <2>2, <2>3
<1>6. QED
  BY <1>3, <1>4, <1>5

(* A write to a partition of the job that leaves no GRUB configuration on it. *)
LEMMA CopyStep ==
    ASSUME IInv, NEW p, p \in todo, phase = "run", pc = "copy", phase' = "run", pc' \in {"copy", "verify"},
           UNCHANGED <<data, job, cfg, cmd, bad, completed, current, known, faults>>,
           table' = table \/ (cfg.mode \in {"whole", "partition"} /\ table' = "image"),
           p \in dirty', dirty \subseteq dirty', dirty' \subseteq dirty \cup {p}, todo' \subseteq todo,
           NEW c \in Content, part' = [part EXCEPT ![p] = c],
           c.job <= job, c.job # 0, p \in Slots => c.env \in {None, p} /\ ~c.grub
    PROVE  IInv'
<1>1. /\ "stream" \notin completed /\ "wipe" \in completed /\ job # 0
      /\ todo \subseteq Written /\ dirty \subseteq Written
  BY DEF IInv, Sequence, Targets, Open, Early, Streaming
<1>2. /\ Target' = Target /\ Written' = Written /\ Seeds' = Seeds
      /\ Target \in Slots /\ Written \subseteq Parts /\ p \in Parts
      /\ cfg.preserve => cfg.mode = "ab" /\ p = Target /\ p # cfg.active /\ cfg.active \in Parts
  BY <1>1, SameJob, ConfigFacts DEF IInv, Shape, Parts
<1>3. part' \in [Parts -> Content] /\ part'[p] = c /\ \A q \in Parts \ {p} : part'[q] = part[q]
  BY <1>2 DEF IInv, Shape
<1>4. Shape'
  BY <1>3 DEF IInv, Shape, Early, Streaming
<1>5. Sequence'
  BY <1>1 DEF IInv, Sequence, Open, Early, Late, Streaming
<1>6. Contents'
  <2>1. job \in Nat
    BY SlotUpdateAssumption, SMT DEF IInv, Shape
  <2>2. QED
    BY <1>1, <1>3, <2>1 DEF IInv, Contents, Parts
<1>7. Targets'
  BY <1>1, <1>2, <1>3 DEF IInv, Targets
<1>8. NotYet'
  BY <1>2, <1>3 DEF IInv, NotYet, Open, Streaming, Parts
<1>9. Knowledge'
  BY DEF IInv, Knowledge, Open
<1>10. Seeding'
  BY DEF IInv, Seeding
<1>11. ASSUME faults = 0, cfg.mode # "partition"
       PROVE  /\ Mine' \subseteq dirty' /\ (cfg.preserve => Mine' \subseteq {Target})
              /\ validateABPreserveExistingLayout'
  <2>1. Mine \subseteq dirty /\ validateABPreserveExistingLayout
    BY <1>11 DEF IInv, Remains, Open, Streaming
  <2>2. Mine' \subseteq dirty'
    BY <1>3, <2>1 DEF Mine
  <2>3. cfg.preserve => Mine' \subseteq {Target}
    BY <1>1, <1>2, <2>1, <2>2, ConfigFacts DEF IInv, Shape
  <2>4. validateABPreserveExistingLayout'
    BY <1>2, <1>3, <2>1 DEF validateABPreserveExistingLayout, validateABActiveSlotState,
       validateABBootedSlotSignal
  <2>5. QED
    BY <2>2, <2>3, <2>4
<1>12. Remains'
  BY <1>1, <1>2, <1>11 DEF Remains, Streaming
<1>13. QED
  BY <1>4, <1>5, <1>6, <1>7, <1>8, <1>9, <1>10, <1>12 DEF IInv

LEMMA CopyBeginsStep == ASSUME IInv, NEW p \in Parts, copyBegins(p) PROVE IInv'
<1> DEFINE c == [Blank EXCEPT !.job = job, !.fill = "part"]
<1>1. job \in 0 .. MaxJobs /\ job # 0
  BY DEF IInv, Shape, Sequence, Open, copyBegins, Running
<1>2. c \in Content
  <2>1. Blank \in Content
    BY SlotUpdateAssumption, SMT DEF Blank, Content
  <2>2. QED
    BY <1>1, <2>1 DEF Content
<1>3. c.job = job /\ c.env = None /\ ~c.grub
  BY DEF Blank
<1>4. part' = [part EXCEPT ![p] = c]
  BY DEF copyBegins
<1>5. /\ p \in todo /\ phase = "run" /\ pc = "copy" /\ phase' = "run" /\ pc' = "copy"
      /\ UNCHANGED <<data, job, cfg, cmd, bad, completed, current, known, faults>>
      /\ table' = table \/ (cfg.mode \in {"whole", "partition"} /\ table' = "image")
      /\ dirty' = dirty \cup {p} /\ todo' = todo
  BY DEF copyBegins, Running
<1>6. c.job <= job
  BY <1>1, <1>3, SlotUpdateAssumption, SMT
<1> HIDE DEF c
<1>7. QED
  BY <1>1, <1>2, <1>3, <1>4, <1>5, <1>6, CopyStep

LEMMA CopyEndsStep == ASSUME IInv, NEW p \in Parts, copyEnds(p) PROVE IInv'
<1> DEFINE c == [part[p] EXCEPT !.fill = "whole"]
<1>1. /\ p \in todo /\ p \in dirty /\ phase = "run" /\ pc = "copy" /\ phase' = "run"
      /\ pc' \in {"copy", "verify"} /\ UNCHANGED <<data, job, cfg, cmd, bad, completed, current, known, faults>>
      /\ table' = table /\ dirty' = dirty /\ todo' \subseteq todo
  BY DEF copyEnds, Running
<1>2. part[p] \in Content /\ part \in [Parts -> Content]
  BY DEF IInv, Shape
<1>3. c \in Content /\ c.job = part[p].job /\ c.env = part[p].env /\ c.grub = part[p].grub
  BY <1>2 DEF Content
<1>4. part' = [part EXCEPT ![p] = c]
  BY <1>2 DEF copyEnds
<1>5. c.job <= job /\ c.job # 0 /\ (p \in Slots => c.env \in {None, p})
  BY <1>1, <1>3 DEF IInv, Contents, Targets
<1>6. p \in Slots => ~c.grub
  <2>1. "stream" \notin completed /\ "wipe" \in completed /\ p \in Written
    BY <1>1 DEF IInv, Sequence, Targets, Open, Early, Streaming
  <2>2. cfg.preserve => p = Target
    BY <2>1, ConfigFacts DEF IInv, Shape
  <2>3. QED
    BY <1>1, <1>3, <2>1, <2>2 DEF IInv, NotYet, Open, Streaming
<1> HIDE DEF c
<1>7. QED
  BY <1>1, <1>3, <1>4, <1>5, <1>6, CopyStep

(* The copy fails or the checksum does not match: the targets are wiped. *)
LEMMA FailStep == ASSUME IInv, copyFails \/ streamMismatch PROVE IInv'
<1>1. PICK permanent \in BOOLEAN : streamFails(permanent)
  BY DEF copyFails, streamMismatch
<1>2. phase = "run" /\ pc \in Streaming
  BY ZenonT(30) DEF copyFails, streamMismatch, Running, Streaming
<1>3. /\ streamError(permanent) /\ data' = data /\ current' = current /\ table' \in {table, "none"}
      /\ job' = job
  BY <1>1 DEF streamFails, streamError
<1>4. CASE /\ part' = [p \in Parts |-> IF wipeTargets(p) THEN Blank ELSE part[p]]
           /\ faults' = faults
  <2>1. Blank \in Content /\ Blank.fill = "none"
    BY SlotUpdateAssumption, SMT DEF Blank, Content
  <2>2. part' \in [Parts -> Content] /\ \A p \in Parts : part'[p] \in {part[p], Blank}
    BY <1>4, <2>1 DEF IInv, Shape
  <2>3. ASSUME faults = 0, cfg.mode # "partition" PROVE Mine' = {}
    <3>1. Mine \subseteq dirty
      BY <1>2, <2>3 DEF IInv, Remains, Open
    <3>2. \A p \in dirty : wipeTargets(p)
      BY <2>3 DEF wipeTargets
    <3>3. QED
      BY <1>3, <1>4, <2>1, <3>1, <3>2 DEF Mine
  <2>4. QED
    BY <1>2, <1>3, <1>4, <2>2, <2>3, StreamErrorStep DEF IInv, Shape
<1>5. CASE faults' = faults + 1 /\ part' = part
  <2>1. faults' \in Nat /\ faults' # 0
    BY <1>5, SMT DEF IInv, Shape
  <2>2. part' \in [Parts -> Content] /\ \A p \in Parts : part'[p] \in {part[p], Blank}
    BY <1>5 DEF IInv, Shape
  <2>3. QED
    BY <1>2, <1>3, <2>1, <2>2, StreamErrorStep
<1>6. QED
  BY <1>1, <1>4, <1>5 DEF streamFails

(* A step after stream-image changes neither a job number nor an image. *)
LEMMA LateStep ==
    ASSUME IInv, phase = "run", phase' = "run", pc' \in Late, pc \in Late \/ (pc = "verify" /\ ~bad),
           UNCHANGED <<table, job, cfg, cmd, bad, current, known, faults>>,
           completed \subseteq completed', "stream" \in completed', {"wipe", "layout"} \subseteq completed',
           part' \in [Parts -> Content],
           \A p \in Parts : part'[p].job = part[p].job /\ part'[p].fill = part[p].fill,
           \A s \in Slots : part'[s].env \in {part[s].env, s},
           cfg.preserve => part'[cfg.active].env = part[cfg.active].env /\ data' = data,
           todo' \subseteq todo, dirty' \subseteq dirty,
           data' \in [files : {"nofs", "empty", "part", "left", "full"}, marker : BOOLEAN], Seeding'
    PROVE  IInv'
<1>1. job # 0 /\ ~bad
  BY DEF IInv, Sequence, Open
<1>2. /\ Target' = Target /\ Written' = Written
      /\ cfg.preserve => cfg.active \in Slots
  BY SameJob, ConfigFacts DEF IInv, Shape
<1>3. Shape'
  BY DEF IInv, Shape
<1>4. Sequence'
  BY <1>1 DEF Sequence, Open, Early, Late, Streaming
<1>5. Contents'
  BY DEF IInv, Contents, Parts
<1>6. Targets'
  BY <1>2 DEF IInv, Targets, Late
<1>7. NotYet'
  BY DEF NotYet
<1>8. Knowledge'
  BY DEF IInv, Knowledge, Open
<1>9. Remains'
  <2>1. Mine' = Mine
    BY DEF Mine
  <2>2. validateABPreserveExistingLayout' = validateABPreserveExistingLayout
    BY <1>2 DEF validateABPreserveExistingLayout, validateABActiveSlotState, validateABBootedSlotSignal, Parts
  <2>3. QED
    BY <1>2, <2>1, <2>2 DEF IInv, Remains, Open, Streaming, Late
<1>10. QED
  BY <1>3, <1>4, <1>5, <1>6, <1>7, <1>8, <1>9 DEF IInv

(* The image is complete. *)
LEMMA VerifiedStep == ASSUME IInv, streamVerified PROVE IInv'
<1>1. /\ phase = "run" /\ pc = "verify" /\ ~bad /\ phase' = "run" /\ completed' = completed \cup {"stream"}
      /\ table' = table /\ part' = part /\ data' = data /\ todo' = {} /\ dirty' = {}
      /\ UNCHANGED <<job, cfg, cmd, bad, current, known, faults>>
  BY DEF streamVerified, verifyChecksum, Running, Finish, disk
<1>2. pc' = "seed"
  BY <1>1, NextSteps, StepFacts, Sums, SMTT(30) DEF streamVerified, Finish
<1>3. Seeding'
  BY <1>1, <1>2 DEF IInv, Seeding
<1>4. {"wipe", "layout"} \subseteq completed
  BY <1>1 DEF IInv, Sequence, Open, Early, Streaming
<1>5. QED
  BY <1>1, <1>2, <1>3, <1>4, LateStep DEF IInv, Shape, Late

(* mount-shared-data seeds the shared data partition, or does not need to. *)
LEMMA SeedStep ==
    ASSUME IInv, seedNotNeeded \/ seedBegins \/ seedCopies \/ removeSeedInProgressMarker
    PROVE  IInv'
<1>1. /\ phase = "run" /\ phase' = "run" /\ pc \in {"seed", "seedCopy", "seedUnmark"}
      /\ table' = table /\ part' = part /\ todo' = todo /\ dirty' = dirty
      /\ UNCHANGED <<job, cfg, cmd, bad, current, known, faults>>
      /\ completed' \in {completed, completed \cup {"seed"}}
  BY DEF seedNotNeeded, seedBegins, seedCopies, removeSeedInProgressMarker, Running, Finish, disk
<1>2. {"wipe", "layout", "stream"} \subseteq completed
  BY <1>1 DEF IInv, Sequence, Open, Late
<1>3. Seeds' = Seeds
  BY <1>1, SameJob
<1>4. ASSUME pc' \in Late, Seeding', cfg.preserve => data' = data,
             data' \in [files : {"nofs", "empty", "part", "left", "full"}, marker : BOOLEAN]
      PROVE  IInv'
  BY <1>1, <1>2, <1>4, LateStep DEF IInv, Shape, Late
<1>5. CASE seedNotNeeded
  <2>1. data' = data /\ (~Seeds \/ (~data.marker /\ data.files \in {"part", "left", "full"}))
    BY <1>5 DEF seedNotNeeded, seedDirectoryState, disk
  <2>2. pc' \in {"fstab", "grub"}
    BY <1>5, NextSteps, StepFacts, Sums, SMT DEF seedNotNeeded, Finish
  <2>3. Seeding'
    BY <1>1, <1>3, <2>1, <2>2 DEF IInv, Seeding
  <2>4. QED
    BY <1>4, <2>1, <2>2, <2>3 DEF Late, IInv, Shape
<1>6. CASE seedBegins
  <2>1. data' = [files |-> "empty", marker |-> TRUE] /\ pc' = "seedCopy" /\ Seeds
    BY <1>6 DEF seedBegins
  <2>2. Seeding'
    BY <1>1, <1>3, <2>1 DEF Seeding
  <2>3. data' \in [files : {"nofs", "empty", "part", "left", "full"}, marker : BOOLEAN]
    BY <2>1
  <2>4. QED
    BY <1>4, <2>1, <2>2, <2>3 DEF Late, Seeds
<1>7. CASE seedCopies
  <2>1. /\ Seeds /\ data.marker /\ data.files \in {"empty", "part"}
        /\ data \in [files : {"nofs", "empty", "part", "left", "full"}, marker : BOOLEAN]
    BY <1>7 DEF seedCopies, Running, IInv, Seeding, Shape
  <2>2. /\ data' = [data EXCEPT !.files = IF data.files = "empty" THEN "part" ELSE "full"]
        /\ pc' = IF data.files = "empty" THEN "seedCopy" ELSE "seedUnmark"
    BY <1>7 DEF seedCopies, Running
  <2>3. /\ data' \in [files : {"nofs", "empty", "part", "left", "full"}, marker : BOOLEAN]
        /\ data'.files = (IF data.files = "empty" THEN "part" ELSE "full") /\ data'.marker = data.marker
    BY <2>1, <2>2
  <2>4. Seeding'
    BY <1>1, <1>3, <2>1, <2>2, <2>3 DEF Seeding
  <2>5. QED
    BY <1>4, <2>1, <2>2, <2>3, <2>4 DEF Late, Seeds
<1>8. CASE removeSeedInProgressMarker
  <2>1. /\ data.files = "full" /\ Seeds
        /\ data \in [files : {"nofs", "empty", "part", "left", "full"}, marker : BOOLEAN]
    BY <1>8 DEF removeSeedInProgressMarker, Running, IInv, Seeding, Shape
  <2>2. data' = [data EXCEPT !.marker = FALSE]
    BY <1>8 DEF removeSeedInProgressMarker
  <2>3. pc' \in {"fstab", "grub"}
    BY <1>8, NextSteps, StepFacts, Sums, SMT DEF removeSeedInProgressMarker
  <2>4. /\ data' \in [files : {"nofs", "empty", "part", "left", "full"}, marker : BOOLEAN]
        /\ data'.files = "full" /\ ~data'.marker
    BY <2>1, <2>2
  <2>5. Seeding'
    BY <1>1, <1>3, <2>3, <2>4 DEF Seeding
  <2>6. QED
    BY <1>4, <2>1, <2>3, <2>4, <2>5 DEF Late, Seeds
<1>9. QED
  BY <1>5, <1>6, <1>7, <1>8

(* The cleanup of an interrupted seed fails and leaves files without a marker. *)
LEMMA CleanFailsStep == ASSUME IInv, cleanFails PROVE IInv'
<1>1. /\ phase = "run" /\ pc = "seed" /\ phase' = "failed" /\ pc' = "seed" /\ completed' = completed
      /\ table' = table /\ part' = part /\ data' = [files |-> "left", marker |-> FALSE]
      /\ UNCHANGED <<job, cfg, cmd, bad, current, known>>
      /\ faults' = faults + 1
  BY DEF cleanFails, Running, run
<1>2. faults' \in Nat /\ faults' # 0
  BY <1>1, SMT DEF IInv, Shape
<1>3. data' \in [files : {"nofs", "empty", "part", "left", "full"}, marker : BOOLEAN]
  BY <1>1
<1>4. Shape' /\ Contents'
  BY <1>1, <1>2, <1>3 DEF IInv, Shape, Contents
<1>5. Sequence' /\ Targets' /\ NotYet' /\ Knowledge'
  BY <1>1 DEF IInv, Sequence, Targets, NotYet, Knowledge, Open, Early, Late, Streaming
<1>6. Seeding' /\ Remains'
  BY <1>1, <1>2 DEF Seeding, Remains
<1>7. QED
  BY <1>4, <1>5, <1>6 DEF IInv

(* The boot configuration of the slot and of the ESP. *)
LEMMA BootConfigStep ==
    ASSUME IInv, writeABSlotState \/ configureGRUB \/ installEFIFallbackLoader
    PROVE  IInv'
<1>1. /\ phase = "run" /\ phase' = "run" /\ pc \in {"fstab", "grub", "fallback"}
      /\ table' = table /\ data' = data /\ todo' = todo /\ dirty' = dirty
      /\ UNCHANGED <<job, cfg, cmd, bad, current, known, faults>>
      /\ completed \subseteq completed'
  BY DEF writeABSlotState, configureGRUB, installEFIFallbackLoader, Running, Finish
<1>2. {"wipe", "layout", "stream"} \subseteq completed
  BY <1>1 DEF IInv, Sequence, Open, Late
<1>3. pc' \in {"grub", "fallback", "report"}
  <2>1. CASE writeABSlotState
    BY <2>1, NextSteps, StepFacts, Sums, SMT DEF writeABSlotState, Finish
  <2>2. CASE configureGRUB
    BY <2>2, NextSteps, StepFacts, Sums, SMT DEF configureGRUB, Finish
  <2>3. CASE installEFIFallbackLoader
    BY <2>3, NextSteps, StepFacts, Sums, SMT DEF installEFIFallbackLoader, Finish
  <2>4. QED
    BY <2>1, <2>2, <2>3
<1>4. Seeding'
  <2>1. Seeds' = Seeds
    BY <1>1, SameJob
  <2>2. QED
    BY <1>1, <1>3, <2>1 DEF IInv, Seeding
<1>5. /\ part \in [Parts -> Content] /\ job \in 0 .. MaxJobs
      /\ Target \in Slots /\ Target \in Parts /\ "esp" \in Parts /\ Target # "esp"
      /\ cfg.preserve => cfg.active # Target /\ cfg.active \in Parts
  BY ConfigFacts DEF IInv, Shape, Parts, Slots
<1>6. /\ part' \in [Parts -> Content]
      /\ \A p \in Parts : part'[p].job = part[p].job /\ part'[p].fill = part[p].fill
      /\ \A p \in Parts : part'[p].env = part[p].env \/ (p = Target /\ part'[p].env = Target)
  <2>1. CASE writeABSlotState
    BY <1>5, <2>1 DEF writeABSlotState, Content
  <2>2. CASE configureGRUB
    <3>1. part' = [part EXCEPT ![Target] = [part[Target] EXCEPT !.grub = TRUE]]
      BY <2>2 DEF configureGRUB
    <3>2. [part[Target] EXCEPT !.grub = TRUE] \in Content
      BY <1>5, ZenonT(30) DEF Content
    <3>3. QED
      BY <1>5, <3>1, <3>2 DEF Content
  <2>3. CASE installEFIFallbackLoader
    BY <1>5, <2>3, SMT DEF installEFIFallbackLoader, Content
  <2>4. QED
    BY <2>1, <2>2, <2>3
<1>7. cfg.preserve => part'[cfg.active].env = part[cfg.active].env
  BY <1>5, <1>6
<1>8. \A s \in Slots : part'[s].env \in {part[s].env, s}
  BY <1>6 DEF Parts
<1>9. QED
  BY <1>1, <1>2, <1>3, <1>4, <1>6, <1>7, <1>8, LateStep DEF IInv, Shape, Late

(* Every step keeps the invariant. *)
LEMMA NextIInv == IInv /\ [Next]_vars => IInv'
<1>1. SUFFICES ASSUME IInv, [Next]_vars PROVE IInv'
  OBVIOUS
<1>2. CASE UNCHANGED vars
  <2>1. UNCHANGED <<table, part, data, job, cfg, cmd, bad, phase, pc, completed, todo, dirty, current, known, faults>>
    BY <1>2 DEF vars, disk, run
  <2>2. Target' = Target /\ Written' = Written /\ Seeds' = Seeds /\ Mine' = Mine
    BY <2>1, SameJob DEF Mine
  <2>3. validateABPreserveExistingLayout' = validateABPreserveExistingLayout
    BY <2>1, <2>2 DEF validateABPreserveExistingLayout, validateABActiveSlotState, validateABBootedSlotSignal
  <2>4. Shape' /\ Sequence' /\ Contents'
    BY <1>1, <2>1, SMTT(30) DEF IInv, Shape, Sequence, Contents, Open
  <2>5. Targets' /\ NotYet' /\ Knowledge' /\ Seeding' /\ Remains'
    BY <1>1, <2>1, <2>2, <2>3, SMT DEF IInv, Targets, NotYet, Knowledge, Seeding, Remains, Open
  <2>6. QED
    BY <2>4, <2>5 DEF IInv
<1>3. CASE Next
  <2>1. CASE NewJob \/ Again \/ StepFails \/ PowerLoss \/ reportSuccess
    BY <1>1, <2>1, NewJobStep, AgainStep, OutcomeStep, LeaveStep
  <2>2. CASE wipeDisks \/ applyPartitionLayout \/ prepareABTargetSlot
    BY <1>1, <2>2, WipeStep, LayoutStep, PrepareStep
  <2>3. CASE openSourceFails \/ stagingFails \/ streamImage \/ copyFails \/ streamVerified \/ streamMismatch
    BY <1>1, <2>3, OpenStep, FailStep, VerifiedStep
  <2>4. CASE \E p \in Parts : copyBegins(p) \/ copyEnds(p)
    BY <1>1, <2>4, CopyBeginsStep, CopyEndsStep
  <2>5. CASE seedNotNeeded \/ seedBegins \/ cleanFails \/ seedCopies \/ removeSeedInProgressMarker
    BY <1>1, <2>5, SeedStep, CleanFailsStep
  <2>6. CASE writeABSlotState \/ configureGRUB \/ installEFIFallbackLoader
    BY <1>1, <2>6, BootConfigStep
  <2>7. CASE kexecHandoff \/ rebootHandoff \/ powerOff \/ rebootHost
    BY <1>1, <2>7, LeaveStep
  <2>8. QED
    BY <1>3, <2>1, <2>2, <2>3, <2>4, <2>5, <2>6, <2>7 DEF Next
<1>4. QED
  BY <1>1, <1>2, <1>3

LEMMA Invariance == Spec => []IInv
  BY InitIInv, NextIInv, PTL DEF Spec

-----------------------------------------------------------------------------
(* A failed stream-image leaves nothing of its image behind, no success is   *)
(* reported with an image that does not match its checksum, and a seed of    *)
(* the shared data is whole, for every number of jobs, tries and faults.     *)
THEOREM InstallsAreWholeAlways == Spec => []InstallsAreWhole
<1>1. ASSUME IInv PROVE InstallsAreWhole
  <2>1. phase = "done" => ~bad
    BY <1>1 DEF IInv, Sequence, Late
  <2>2. ASSUME phase = "failed", pc \in {"stream"} \cup Streaming, cfg.mode # "partition", faults = 0
        PROVE  Mine = {}
    BY <1>1, <2>2 DEF IInv, Remains, Open, Early, Streaming
  <2>3. NoBadImageLeft
    BY <2>1, <2>2 DEF NoBadImageLeft, Mine, Streaming
  <2>4. SeedIsWhole
    BY <1>1 DEF IInv, Seeding, SeedIsWhole
  <2>5. QED
    BY <2>3, <2>4 DEF InstallsAreWhole
<1>2. QED
  BY <1>1, Invariance, PTL

-----------------------------------------------------------------------------
(* What a step of an update leaves alone. *)
LEMMA UpdateStep ==
    ASSUME IInv, [Next]_vars, phase = "run", cfg.preserve
    PROVE  UNCHANGED <<table, data>> /\ \A p \in Parts \ {Target} : part'[p] = part[p]
<1>1. /\ cfg.mode = "ab" /\ Written = {Target} /\ Target \in Slots /\ Target # "esp"
      /\ todo \subseteq {Target} /\ dirty \subseteq {Target} /\ ~Seeds
      /\ pc \notin {"seedCopy", "seedUnmark"}
  BY ConfigFacts DEF IInv, Shape, Targets, Seeding, Seeds, Slots
<1>2. CASE UNCHANGED disk
  BY <1>2 DEF disk
<1>3. CASE wipeDisks \/ applyPartitionLayout
  BY <1>3 DEF wipeDisks, applyPartitionLayout, disk
<1>4. CASE prepareABTargetSlot
  <2>1. part' = part \/ part' = [part EXCEPT ![Target] = Blank]
    BY <1>1, <1>4 DEF prepareABTargetSlot, disk
  <2>2. UNCHANGED <<table, data>>
    BY <1>1, <1>4 DEF prepareABTargetSlot, disk
  <2>3. QED
    BY <2>1, <2>2 DEF IInv, Shape
<1>5. CASE copyFails \/ streamMismatch
  <2>1. PICK permanent \in BOOLEAN : streamFails(permanent)
    BY <1>5 DEF copyFails, streamMismatch
  <2>2. QED
    BY <1>1, <2>1 DEF streamFails, wipeTargets, IInv, Shape
<1>6. ASSUME NEW p \in Parts, copyBegins(p) \/ copyEnds(p)
      PROVE  UNCHANGED <<table, data>> /\ \A q \in Parts \ {Target} : part'[q] = part[q]
  BY <1>1, <1>6 DEF copyBegins, copyEnds, IInv, Shape
<1>7. CASE seedBegins \/ cleanFails \/ seedCopies \/ removeSeedInProgressMarker
  BY <1>1, <1>7 DEF seedBegins, cleanFails, seedCopies, removeSeedInProgressMarker, Running
<1>8. CASE writeABSlotState \/ configureGRUB \/ installEFIFallbackLoader
  BY <1>1, <1>8 DEF writeABSlotState, configureGRUB, installEFIFallbackLoader, IInv, Shape
<1>9. CASE openSourceFails \/ stagingFails \/ streamImage \/ streamVerified \/ seedNotNeeded
           \/ NewJob \/ Again \/ StepFails \/ PowerLoss \/ reportSuccess
  BY <1>2, <1>9, ZenonT(30) DEF openSourceFails, stagingFails, streamImage, streamVerified, seedNotNeeded,
     NewJob, Again, StepFails, PowerLoss, reportSuccess
<1>10. CASE kexecHandoff \/ rebootHandoff \/ powerOff \/ rebootHost
  BY <1>10 DEF kexecHandoff, rebootHandoff, powerOff, rebootHost
<1>11. CASE UNCHANGED vars
  BY <1>2, <1>11 DEF vars
<1>12. QED
  BY <1>3, <1>4, <1>5, <1>6, <1>7, <1>8, <1>9, <1>10, <1>11 DEF Next

(* The target holds the whole image of the job once nothing is left to copy. *)
Imaged == part[Target].job = job /\ part[Target].fill = "whole"

Installed ==
    /\ phase = "run" /\ pc \in {"copy", "verify"} => \A p \in dirty : part[p].job = job
    /\ phase = "run" /\ pc = "copy" => Target \in todo \/ Imaged
    /\ phase = "run" /\ pc = "verify" => Imaged
    /\ Open /\ "stream" \in completed => Imaged

LEMMA NextInstalled == ASSUME IInv, Installed, [Next]_vars PROVE Installed'
<1>1. Target \in Slots /\ Target \in Parts /\ Target \in Written /\ part \in [Parts -> Content]
  BY ConfigFacts DEF IInv, Shape, Parts
<1>2. ASSUME part' = part, job' = job, cfg' = cfg, phase = "run" \/ phase' = phase \/ phase = "failed",
             completed' = completed \/ (completed' = {} /\ phase' = "run" /\ pc' \notin {"copy", "verify"}),
             phase' = "run" /\ pc' \in {"copy", "verify"} =>
                phase = "run" /\ pc' = pc /\ dirty' = dirty /\ todo' = todo
      PROVE  Installed'
  BY <1>2, SameJob DEF Installed, Imaged, Open
<1>3. CASE NewJob
  BY <1>3, AttemptFacts DEF NewJob, Installed
<1>4. CASE Again
  <2>1. PICK resume \in BOOLEAN : StartAttempt(IF resume THEN completed ELSE {})
    BY <1>4 DEF Again
  <2>2. /\ phase' = "run" /\ completed' \in {completed, {}} /\ pc' \in {"wipe", "layout", "stream", "seed"}
        /\ phase = "failed" /\ part' = part /\ job' = job /\ cfg' = cfg
    BY <1>4, <2>1, AttemptFacts DEF Again, disk
  <2>3. QED
    BY <1>2, <2>2
<1>5. CASE PowerLoss \/ reportSuccess \/ kexecHandoff \/ rebootHandoff \/ powerOff \/ rebootHost
  BY <1>5 DEF PowerLoss, reportSuccess, kexecHandoff, rebootHandoff, powerOff, rebootHost, boot, Installed, Open
<1>6. CASE StepFails \/ cleanFails
  BY <1>2, <1>6 DEF StepFails, cleanFails, Running, disk, run
<1>7. CASE wipeDisks \/ applyPartitionLayout \/ prepareABTargetSlot
  <2>1. /\ phase = "run" /\ pc \in {"wipe", "layout", "stream"}
        /\ completed' \subseteq completed \cup {"wipe", "layout"}
    BY <1>7 DEF wipeDisks, applyPartitionLayout, prepareABTargetSlot, Running, Finish, streamError
  <2>2. "stream" \notin completed
    BY <2>1 DEF IInv, Sequence, Open, Early
  <2>3. pc' \notin {"copy", "verify"}
    <3>1. CASE wipeDisks \/ applyPartitionLayout
      BY <2>2, <3>1, NextSteps, StepFacts, Sums, SMT DEF wipeDisks, applyPartitionLayout, Finish
    <3>2. CASE prepareABTargetSlot
      BY <2>1, <3>2 DEF prepareABTargetSlot, streamError
    <3>3. QED
      BY <1>7, <3>1, <3>2
  <2>4. QED
    BY <2>1, <2>2, <2>3 DEF Installed
<1>8. ASSUME phase = "run", pc \in Streaming, completed' = completed, phase' = "failed" \/ pc' = "stream"
      PROVE  Installed'
  BY <1>8 DEF Installed, IInv, Sequence, Open, Early
<1>9. CASE openSourceFails \/ stagingFails \/ copyFails \/ streamMismatch
  <2>1. PICK permanent \in BOOLEAN : streamError(permanent)
    BY <1>9 DEF openSourceFails, stagingFails, copyFails, streamMismatch, streamFails
  <2>2. phase = "run" /\ pc \in Streaming
    BY <1>9 DEF openSourceFails, stagingFails, copyFails, streamMismatch, Running, Streaming
  <2>3. QED
    BY <1>8, <2>1, <2>2, StreamErrorFacts
<1>10. CASE streamImage
  <2>1. PICK img \in Images :
          \/ streamError(TRUE) \/ streamError(FALSE)
          \/ /\ pc' = "copy" /\ todo' = abRangeTargets(img) /\ dirty' = {}
             /\ UNCHANGED <<job, cfg, cmd, known, completed, phase>>
    BY <1>10 DEF streamImage
  <2>2. phase = "run" /\ pc = "open" /\ part' = part
    BY <1>10 DEF streamImage, Running, disk
  <2>3. CASE streamError(TRUE) \/ streamError(FALSE)
    BY <1>8, <2>2, <2>3, StreamErrorFacts DEF Streaming
  <2>4. CASE pc' = "copy" /\ todo' = abRangeTargets(img) /\ dirty' = {}
             /\ UNCHANGED <<job, cfg, cmd, known, completed, phase>>
    <3>1. "stream" \notin completed
      BY <2>2 DEF IInv, Sequence, Open, Early, Streaming
    <3>2. Target' \in todo'
      BY <1>1, <2>4, SameJob DEF abRangeTargets, Slots
    <3>3. QED
      BY <2>4, <3>1, <3>2 DEF Installed
  <2>5. QED
    BY <2>1, <2>3, <2>4
<1>11. ASSUME NEW p \in Parts, copyBegins(p) PROVE Installed'
  <2>1. /\ phase = "run" /\ pc = "copy" /\ pc' = "copy" /\ job' = job /\ cfg' = cfg /\ todo' = todo
        /\ completed' = completed /\ p \in todo /\ dirty' = dirty \cup {p}
        /\ part' = [part EXCEPT ![p] = [Blank EXCEPT !.job = job, !.fill = "part"]]
    BY <1>11 DEF copyBegins, Running
  <2>2. part'[p].job = job /\ \A q \in Parts : q # p => part'[q] = part[q]
    BY <1>1, <2>1 DEF Blank
  <2>3. "stream" \notin completed /\ dirty \subseteq Parts
    BY <2>1, ConfigFacts DEF IInv, Shape, Sequence, Targets, Open, Early, Streaming
  <2>4. \A q \in dirty' : part'[q].job = job
    BY <2>1, <2>2, <2>3, <1>11 DEF Installed
  <2>5. Target' \in todo' \/ Imaged'
    <3>1. CASE Target = p
      BY <2>1, <3>1, SameJob
    <3>2. CASE Target # p
      BY <1>1, <1>11, <2>1, <2>2, <3>2, SameJob DEF Installed, Imaged
    <3>3. QED
      BY <3>1, <3>2
  <2>6. QED
    BY <2>1, <2>3, <2>4, <2>5 DEF Installed
<1>12. ASSUME NEW p \in Parts, copyEnds(p) PROVE Installed'
  <2>1. /\ phase = "run" /\ pc = "copy" /\ pc' \in {"copy", "verify"} /\ job' = job /\ cfg' = cfg
        /\ completed' = completed /\ p \in dirty /\ dirty' = dirty /\ todo' = todo \ {p}
        /\ pc' = "verify" => todo' = {}
        /\ part' = [part EXCEPT ![p] = [part[p] EXCEPT !.fill = "whole"]]
    BY <1>12 DEF copyEnds, Running
  <2>2. /\ part[p].job = job /\ part'[p].job = job /\ part'[p].fill = "whole"
        /\ \A q \in Parts : q # p => part'[q] = part[q]
    BY <1>1, <1>12, <2>1 DEF Installed, Content
  <2>3. "stream" \notin completed /\ dirty \subseteq Parts
    BY <2>1, ConfigFacts DEF IInv, Shape, Sequence, Targets, Open, Early, Streaming
  <2>4. \A q \in dirty' : part'[q].job = job
    BY <2>1, <2>2, <2>3, <1>12 DEF Installed
  <2>5. Target' \in todo' \/ Imaged'
    <3>1. CASE Target = p
      BY <2>1, <2>2, <3>1, SameJob DEF Imaged
    <3>2. CASE Target # p
      BY <1>1, <1>12, <2>1, <2>2, <3>2, SameJob DEF Installed, Imaged
    <3>3. QED
      BY <3>1, <3>2
  <2>6. QED
    BY <2>1, <2>3, <2>4, <2>5 DEF Installed
<1>13. ASSUME phase = "run", pc' \in Late, job' = job, cfg' = cfg, pc = "verify" \/ "stream" \in completed,
              part'[Target].job = part[Target].job, part'[Target].fill = part[Target].fill
       PROVE  Installed'
  <2>1. Imaged
    BY <1>13 DEF Installed, Open
  <2>2. QED
    BY <1>13, <2>1, SameJob DEF Installed, Imaged, Late
<1>14. CASE streamVerified
  <2>1. /\ phase = "run" /\ pc = "verify" /\ part' = part /\ job' = job /\ cfg' = cfg
    BY <1>14 DEF streamVerified, Running, Finish, disk
  <2>2. pc' = "seed"
    BY <1>14, NextSteps, StepFacts, Sums, SMTT(30) DEF streamVerified, Finish
  <2>3. QED
    BY <1>13, <2>1, <2>2 DEF Late
<1>15. CASE seedNotNeeded \/ seedBegins \/ seedCopies \/ removeSeedInProgressMarker
  <2>1. /\ phase = "run" /\ pc \in Late /\ part' = part /\ job' = job /\ cfg' = cfg
    BY <1>15 DEF seedNotNeeded, seedBegins, seedCopies, removeSeedInProgressMarker, Running, Finish, disk, Late
  <2>2. pc' \in Late
    <3>1. CASE seedNotNeeded
      BY <3>1, NextSteps, StepFacts, Sums, SMT DEF seedNotNeeded, Finish, Late
    <3>2. CASE seedBegins \/ seedCopies
      BY <3>2 DEF seedBegins, seedCopies, Running, Late
    <3>3. CASE removeSeedInProgressMarker
      BY <3>3, NextSteps, StepFacts, Sums, SMT DEF removeSeedInProgressMarker, Late
    <3>4. QED
      BY <1>15, <3>1, <3>2, <3>3
  <2>3. "stream" \in completed
    BY <2>1 DEF IInv, Sequence, Open
  <2>4. QED
    BY <1>13, <2>1, <2>2, <2>3
<1>16. CASE writeABSlotState \/ configureGRUB \/ installEFIFallbackLoader
  <2>1. /\ phase = "run" /\ pc \in Late /\ job' = job /\ cfg' = cfg
    BY <1>16 DEF writeABSlotState, configureGRUB, installEFIFallbackLoader, Running, Finish, Late
  <2>2. pc' \in Late
    <3>1. CASE writeABSlotState
      BY <3>1, NextSteps, StepFacts, Sums, SMT DEF writeABSlotState, Finish, Late
    <3>2. CASE configureGRUB
      BY <3>2, NextSteps, StepFacts, Sums, SMT DEF configureGRUB, Finish, Late
    <3>3. CASE installEFIFallbackLoader
      BY <3>3, NextSteps, StepFacts, Sums, SMT DEF installEFIFallbackLoader, Finish, Late
    <3>4. QED
      BY <1>16, <3>1, <3>2, <3>3
  <2>3. "stream" \in completed
    BY <2>1 DEF IInv, Sequence, Open
  <2>4. part'[Target].job = part[Target].job /\ part'[Target].fill = part[Target].fill
    <3>1. Target # "esp" /\ "esp" \in Parts /\ part[Target] \in Content
      BY <1>1 DEF Slots, Parts
    <3>2. CASE writeABSlotState
      BY <1>1, <3>1, <3>2 DEF writeABSlotState, Content
    <3>3. CASE configureGRUB
      BY <1>1, <3>1, <3>3 DEF configureGRUB, Content
    <3>4. CASE installEFIFallbackLoader
      BY <1>1, <3>1, <3>4 DEF installEFIFallbackLoader, Content
    <3>5. QED
      BY <1>16, <3>2, <3>3, <3>4
  <2>5. QED
    BY <1>13, <2>1, <2>2, <2>3, <2>4
<1>17. CASE UNCHANGED vars
  BY <1>2, <1>17 DEF vars, disk, run
<1>18. QED
  BY <1>3, <1>4, <1>5, <1>6, <1>7, <1>9, <1>10, <1>11, <1>12, <1>14, <1>15, <1>16, <1>17 DEF Next

(* An update writes into the shared data only when its image is in place. *)
LEMMA AddedStep ==
    ASSUME IInv, Installed, [Next]_vars, phase = "run", cfg.preserve, added' # added
    PROVE  cfg.shared /\ added' = job /\ ~bad /\ Imaged
<1>1. CASE writeABSlotState \/ configureGRUB \/ installEFIFallbackLoader
  <2>1. pc \in Late /\ added' \in IF cfg.mode = "ab" /\ cfg.shared THEN {added, job} ELSE {added}
    BY <1>1 DEF writeABSlotState, configureGRUB, installEFIFallbackLoader, MayAdd, Running, Late
  <2>2. "stream" \in completed /\ ~bad
    BY <2>1 DEF IInv, Sequence, Open
  <2>3. QED
    BY <2>1, <2>2 DEF Installed, Open
<1>2. CASE wipeDisks \/ applyPartitionLayout
  BY <1>2 DEF wipeDisks, applyPartitionLayout, disk
<1>3. CASE prepareABTargetSlot
  BY <1>3, ConfigFacts DEF prepareABTargetSlot, disk, IInv, Shape
<1>4. CASE openSourceFails \/ stagingFails \/ streamImage \/ streamVerified \/ seedNotNeeded
           \/ NewJob \/ Again \/ StepFails \/ PowerLoss \/ reportSuccess \/ UNCHANGED vars
  BY <1>4, ZenonT(30) DEF openSourceFails, stagingFails, streamImage, streamVerified, seedNotNeeded,
     NewJob, Again, StepFails, PowerLoss, reportSuccess, vars, disk
<1>5. CASE copyFails \/ streamMismatch
  BY <1>5 DEF copyFails, streamMismatch, streamFails
<1>6. CASE \E p \in Parts : copyBegins(p) \/ copyEnds(p)
  BY <1>6 DEF copyBegins, copyEnds
<1>7. CASE seedBegins \/ cleanFails \/ seedCopies \/ removeSeedInProgressMarker
  BY <1>7 DEF seedBegins, cleanFails, seedCopies, removeSeedInProgressMarker
<1>8. CASE kexecHandoff \/ rebootHandoff \/ powerOff \/ rebootHost
  BY <1>8 DEF kexecHandoff, rebootHandoff, powerOff, rebootHost, boot, disk
<1>9. QED
  BY <1>1, <1>2, <1>3, <1>4, <1>5, <1>6, <1>7, <1>8 DEF Next

(* An update changes no partition but its target slot, whatever fails, and    *)
(* writes into the shared data only when its verified image is in place.      *)
THEOREM UpdateTouchesOnlyTargetAlways == Spec => UpdateTouchesOnlyTarget
<1>1. IInv /\ Installed /\ [Next]_vars =>
        [phase = "run" /\ cfg.preserve =>
            /\ UNCHANGED <<table, data>>
            /\ \A p \in Parts \ {Target} : part'[p] = part[p]
            /\ added' # added => /\ cfg.shared /\ added' = job /\ ~bad
                                 /\ part[Target].job = job /\ part[Target].fill = "whole"]_vars
  BY UpdateStep, AddedStep DEF Imaged
<1>2. Init => Installed
  BY DEF Init, Installed, Open
<1>3. IInv /\ Installed /\ [Next]_vars => Installed'
  BY NextInstalled
<1>4. QED
  BY <1>1, <1>2, <1>3, Invariance, PTL DEF Spec, UpdateTouchesOnlyTarget

-----------------------------------------------------------------------------
(* The slot whose system ran last is not the one that a job fills: an initial *)
(* provisioning has erased every slot, an update its target.                  *)
Erased ==
    Open =>
        /\ ~cfg.preserve /\ "wipe" \in completed => current = None
        /\ "stream" \in completed \/ (phase = "run" /\ pc \in Streaming) => current # Target

LEMMA NextErased == ASSUME IInv, Erased, [Next]_vars PROVE Erased'
<1>1. Target \in Slots /\ None \notin Slots /\ cfg.preserve \in BOOLEAN
  BY ConfigFacts, SlotUpdateAssumption DEF IInv, Shape
<1>2. CASE NewJob
  BY <1>2, AttemptFacts DEF NewJob, Erased, Streaming
<1>3. CASE Again
  <2>1. PICK resume \in BOOLEAN : StartAttempt(IF resume THEN completed ELSE {})
    BY <1>3 DEF Again
  <2>2. /\ phase' = "run" /\ completed' \in {completed, {}} /\ pc' \notin Streaming
        /\ phase = "failed" /\ cfg' = cfg /\ current' = current /\ Target' = Target
    BY <1>3, <2>1, AttemptFacts, SameJob DEF Again, Streaming
  <2>3. QED
    BY <2>2 DEF Erased, Open
<1>4. CASE PowerLoss \/ reportSuccess \/ kexecHandoff \/ rebootHandoff \/ powerOff \/ rebootHost
  BY <1>4 DEF PowerLoss, reportSuccess, kexecHandoff, rebootHandoff, powerOff, rebootHost, boot, Erased, Open
<1>5. CASE wipeDisks
  <2>1. /\ phase = "run" /\ pc = "wipe" /\ completed' = completed \cup {"wipe"} /\ cfg' = cfg
        /\ ~cfg.preserve => current' = None
    BY <1>5 DEF wipeDisks, Running, Finish
  <2>2. "stream" \notin completed
    BY <2>1 DEF IInv, Sequence, Open, Early
  <2>3. pc' \in {"layout", "stream"}
    BY <1>5, <2>1, <2>2, NextSteps, StepFacts, SMT DEF wipeDisks, Finish
  <2>4. QED
    BY <2>1, <2>2, <2>3 DEF Erased, Streaming
<1>6. CASE prepareABTargetSlot
  <2>1. phase = "run" /\ pc = "stream" /\ cfg' = cfg /\ completed' = completed /\ Target' = Target
    BY <1>6, SameJob DEF prepareABTargetSlot, Running, streamError
  <2>2. "stream" \notin completed /\ "wipe" \in completed
    BY <2>1 DEF IInv, Sequence, Open, Early
  <2>3. CASE validateABPreserveExistingLayout
    <3>1. current' = IF cfg.preserve /\ current = Target THEN None ELSE current
      BY <1>6, <2>3 DEF prepareABTargetSlot
    <3>2. ~cfg.preserve => current = None
      BY <2>1, <2>2 DEF Erased, Open
    <3>3. QED
      BY <1>1, <2>1, <2>2, <3>1, <3>2 DEF Erased
  <2>4. CASE ~validateABPreserveExistingLayout
    <3>1. streamError(FALSE) /\ current' = current
      BY <1>6, <2>4 DEF prepareABTargetSlot
    <3>2. phase' = "failed" \/ pc' = "stream"
      BY <3>1 DEF streamError
    <3>3. QED
      BY <2>1, <2>2, <3>1, <3>2 DEF Erased, Open, Streaming
  <2>5. QED
    BY <2>3, <2>4
<1>7. ASSUME phase = "run", cfg' = cfg, current' = current, completed' = completed,
             phase' = "run" /\ pc' \in Streaming => pc \in Streaming
      PROVE  Erased'
  BY <1>7, SameJob DEF Erased, Open
<1>8. CASE StepFails \/ cleanFails \/ seedBegins \/ seedCopies
  BY <1>7, <1>8 DEF StepFails, cleanFails, seedBegins, seedCopies, Running, run, Streaming
<1>9. CASE openSourceFails \/ stagingFails \/ streamImage
  <2>1. phase = "run" /\ pc \in Streaming /\ current' = current
    BY <1>9 DEF openSourceFails, stagingFails, streamImage, Running, Streaming
  <2>2. cfg' = cfg /\ completed' = completed
    <3>1. CASE openSourceFails \/ stagingFails
      BY <3>1 DEF openSourceFails, stagingFails, streamError
    <3>2. CASE streamImage
      BY <3>2 DEF streamImage, streamError
    <3>3. QED
      BY <1>9, <3>1, <3>2
  <2>3. QED
    BY <1>7, <2>1, <2>2
<1>10. CASE copyFails \/ streamMismatch \/ \E p \in Parts : copyBegins(p) \/ copyEnds(p)
  BY <1>7, <1>10 DEF copyFails, streamMismatch, streamFails, streamError, copyBegins, copyEnds, Running, Streaming
<1>11. CASE streamVerified
  <2>1. /\ phase = "run" /\ pc = "verify" /\ cfg' = cfg /\ current' = current
        /\ completed' = completed \cup {"stream"} /\ Target' = Target
    BY <1>11, SameJob DEF streamVerified, Running, Finish
  <2>2. QED
    BY <2>1 DEF Erased, Open, Streaming
<1>12. CASE \/ applyPartitionLayout \/ seedNotNeeded \/ removeSeedInProgressMarker
            \/ writeABSlotState \/ configureGRUB \/ installEFIFallbackLoader
  <2>1. /\ phase = "run" /\ phase' = "run" /\ cfg' = cfg /\ current' = current /\ Target' = Target
        /\ pc \in {"layout", "seed", "seedUnmark", "fstab", "grub", "fallback"}
    BY <1>12, SameJob DEF applyPartitionLayout, seedNotNeeded, removeSeedInProgressMarker, writeABSlotState,
       configureGRUB, installEFIFallbackLoader, Running, Finish
  <2>2. PICK p \in {"layout", "seed", "fstab", "grub", "fallback"} : completed' = completed \cup {p}
    BY <1>12 DEF applyPartitionLayout, seedNotNeeded, removeSeedInProgressMarker, writeABSlotState,
       configureGRUB, installEFIFallbackLoader, Finish
  <2>3. pc = "layout" => "stream" \notin completed
    BY <2>1 DEF IInv, Sequence, Open, Early
  <2>4. pc = "layout" => pc' = "stream"
    BY <1>12, <2>3, NextSteps, StepFacts, SMT DEF applyPartitionLayout, seedNotNeeded, removeSeedInProgressMarker,
       writeABSlotState, configureGRUB, installEFIFallbackLoader, Running, Finish
  <2>5. pc # "layout" => "stream" \in completed
    BY <2>1 DEF IInv, Sequence, Open, Late
  <2>6. QED
    BY <2>1, <2>2, <2>4, <2>5 DEF Erased, Open, Streaming
<1>13. CASE UNCHANGED vars
  BY <1>13, SameJob DEF vars, run, Erased, Open
<1>14. QED
  BY <1>2, <1>3, <1>4, <1>5, <1>6, <1>8, <1>9, <1>10, <1>11, <1>12, <1>13 DEF Next

-----------------------------------------------------------------------------
(* The state of SlotSpec that a state of the disk stands for. *)
AbsRoot == [s \in Slots |-> IF Complete(s) THEN part[s].job ELSE 0]
AbsCurrent == IF current # None /\ Complete(current) THEN current ELSE None

(* The steps of SlotSpec, in these terms. *)
LEMMA AbsStutter ==
    ASSUME AbsRoot' = AbsRoot, AbsCurrent' = AbsCurrent, known' = known
    PROVE  UNCHANGED Abs!vars
  BY DEF AbsRoot, AbsCurrent, Abs!vars

LEMMA AbsJob ==
    ASSUME AbsRoot' = AbsRoot, AbsCurrent' = AbsCurrent, known' \in BOOLEAN
    PROVE  Abs!Next
  BY DEF AbsRoot, AbsCurrent, Abs!Next, Abs!Job

LEMMA AbsReset ==
    ASSUME AbsRoot' = [s \in Slots |-> 0], AbsCurrent' = None, known' = known
    PROVE  Abs!Next
  BY ZenonT(30) DEF AbsRoot, AbsCurrent, Abs!Next, Abs!Reset

LEMMA AbsEmpty ==
    ASSUME NEW s \in Slots, known => s # AbsCurrent, known' = known,
           AbsRoot' = [AbsRoot EXCEPT ![s] = 0],
           AbsCurrent' = IF s = AbsCurrent THEN None ELSE AbsCurrent
    PROVE  Abs!Next
  BY ZenonT(30) DEF AbsRoot, AbsCurrent, Abs!Next, Abs!Empty

LEMMA AbsFill ==
    ASSUME NEW s \in Slots, NEW v \in 1 .. MaxJobs, AbsRoot[s] = 0,
           AbsRoot' = [AbsRoot EXCEPT ![s] = v], AbsCurrent' = AbsCurrent, known' = known
    PROVE  Abs!Next
  BY DEF AbsRoot, AbsCurrent, Abs!Next, Abs!Fill

LEMMA AbsStart ==
    ASSUME AbsCurrent' \in Slots \cup {None}, AbsCurrent' # None => AbsRoot[AbsCurrent'] # 0,
           AbsRoot' = AbsRoot, known' = known
    PROVE  Abs!Next
  BY ZenonT(30) DEF AbsRoot, AbsCurrent, Abs!Next, Abs!Start

(* A complete slot has the number of a job. *)
LEMMA CompleteFacts ==
    ASSUME IInv, NEW s \in Slots
    PROVE  /\ part[s].job \in 0 .. MaxJobs
           /\ part[s].fill = "whole" => part[s].job \in 1 .. MaxJobs
<1>1. s \in Parts /\ part[s] \in Content
  BY DEF IInv, Shape, Parts
<1>2. part[s].job \in 0 .. MaxJobs /\ (part[s].fill = "whole" => part[s].job # 0)
  BY <1>1 DEF IInv, Contents, Content
<1>3. QED
  BY <1>2, SlotUpdateAssumption, SMT

(* The slots keep their installations, or have none before and after. *)
LEMMA SameInstallations ==
    ASSUME IInv, current' = current, known' = known,
           \A s \in Slots : Complete(s)' = Complete(s) /\ (Complete(s) => part'[s].job = part[s].job)
    PROVE  UNCHANGED Abs!vars
<1>1. AbsRoot' = AbsRoot
  BY DEF AbsRoot
<1>2. AbsCurrent' = AbsCurrent
  <2>1. current \in Slots \cup {None}
    BY DEF IInv, Shape
  <2>2. CASE current = None
    BY <2>2 DEF AbsCurrent
  <2>3. CASE current \in Slots
    <3>1. Complete(current)' = Complete(current)
      BY <2>3 DEF Complete
    <3>2. QED
      BY <3>1 DEF AbsCurrent
  <2>4. QED
    BY <2>1, <2>2, <2>3
<1>3. QED
  BY <1>1, <1>2, AbsStutter

(* No slot is complete before and after. *)
LEMMA NoInstallation ==
    ASSUME IInv, current' = current, known' = known, \A s \in Slots : ~part[s].grub /\ ~part'[s].grub
    PROVE  UNCHANGED Abs!vars
  BY SameInstallations DEF Complete

(* The disk is emptied. *)
LEMMA EmptyStep ==
    ASSUME IInv, part' = [p \in Parts |-> Blank], current' \in {current, None}, known' = known
    PROVE  Abs!Next
<1>1. \A s \in Slots : ~Complete(s)'
  BY DEF Complete, Blank, Parts
<1>2. AbsRoot' = [s \in Slots |-> 0]
  BY <1>1 DEF AbsRoot
<1>3. AbsCurrent' = None
  <2>1. current' \in Slots \cup {None}
    BY DEF IInv, Shape
  <2>2. current' # None => ~(part'[current'].grub)
    BY <2>1 DEF Blank, Parts
  <2>3. QED
    BY <2>2 DEF AbsCurrent, Complete
<1>4. QED
  BY <1>2, <1>3, AbsReset

(* A system starts, from a complete slot or not. *)
LEMMA StartStep ==
    ASSUME IInv, table' = table, part' = part, known' = known, current' \in Slots \cup {None}
    PROVE  Abs!Next
<1>1. \A s \in Slots : Complete(s)' = Complete(s)
  BY DEF Complete
<1>2. AbsRoot' = AbsRoot
  BY <1>1 DEF AbsRoot
<1>3. AbsCurrent' \in Slots \cup {None}
  BY DEF AbsCurrent
<1>4. AbsCurrent' # None => AbsRoot[AbsCurrent'] # 0
  <2>1. SUFFICES ASSUME AbsCurrent' # None PROVE AbsRoot[AbsCurrent'] # 0
    OBVIOUS
  <2>2. PICK s \in Slots : s = current' /\ AbsCurrent' = s /\ Complete(s)
    BY <2>1 DEF AbsCurrent, Complete
  <2>3. part[s].job \in 1 .. MaxJobs
    BY <2>2, CompleteFacts DEF Complete
  <2>4. QED
    BY <2>2, <2>3, SlotUpdateAssumption, SMT DEF AbsRoot
<1>5. QED
  BY <1>2, <1>3, <1>4, AbsStart

(* An update prepares its target: never the slot it knows to run. *)
LEMMA PrepareAbs ==
    ASSUME IInv, phase = "run", cfg.preserve, validateABPreserveExistingLayout,
           part' = [part EXCEPT ![Target] = Blank], table' = table, known' = known,
           current' = IF current = Target THEN None ELSE current
    PROVE  Abs!Next
<1>1. /\ Target \in Slots /\ Target \in Parts /\ Target # None /\ Target # cfg.active
      /\ current \in Slots \cup {None} /\ part \in [Parts -> Content]
  BY ConfigFacts, SlotUpdateAssumption DEF IInv, Shape, Parts
<1>2. part'[Target] = Blank /\ ~Blank.grub /\ \A s \in Slots \ {Target} : part'[s] = part[s]
  BY <1>1 DEF Blank, Parts
<1>3. \A s \in Slots : IF s = Target THEN ~Complete(s)'
                        ELSE (Complete(s)' <=> Complete(s)) /\ part'[s].job = part[s].job
  BY <1>2 DEF Complete
<1>4. AbsRoot' = [AbsRoot EXCEPT ![Target] = 0]
  <2>1. AbsRoot' = [s \in Slots |-> IF s = Target THEN 0 ELSE IF Complete(s) THEN part[s].job ELSE 0]
    BY <1>3 DEF AbsRoot
  <2>2. QED
    BY <1>1, <2>1 DEF AbsRoot
<1>5. AbsCurrent' = IF Target = AbsCurrent THEN None ELSE AbsCurrent
  <2>1. CASE current = Target
    BY <1>1, <2>1 DEF AbsCurrent
  <2>2. CASE current = None
    BY <1>1, <2>2 DEF AbsCurrent
  <2>3. CASE current \in Slots \ {Target}
    <3>1. Complete(current)' = Complete(current)
      BY <1>2, <2>3 DEF Complete
    <3>2. QED
      BY <1>1, <2>3, <3>1 DEF AbsCurrent
  <2>4. QED
    BY <1>1, <2>1, <2>2, <2>3
<1>6. known => Target # AbsCurrent
  <2>1. known => current \in {None, cfg.active}
    BY DEF IInv, Knowledge, Open, validateABPreserveExistingLayout, validateABActiveSlotState,
       validateABBootedSlotSignal
  <2>2. QED
    BY <1>1, <2>1 DEF AbsCurrent
<1>7. QED
  BY <1>1, <1>4, <1>5, <1>6, AbsEmpty, ZenonT(30)

(* The boot configuration of the target makes its installation complete, or  *)
(* changes nothing that SlotSpec sees.                                       *)
LEMMA FillStep ==
    ASSUME IInv, Erased, phase = "run", "stream" \in completed,
           table' = table, known' = known, current' = current,
           \A s \in Slots \ {Target} : part'[s] = part[s],
           \A s \in Slots : part'[s].job = part[s].job /\ part'[s].fill = part[s].fill,
           \A s \in Slots : Complete(s) => Complete(s)'
    PROVE  Abs!Next \/ UNCHANGED Abs!vars
<1>1. /\ Target \in Slots /\ current # Target /\ current \in Slots \cup {None}
  BY ConfigFacts DEF IInv, Shape, Erased, Open
<1>2. \A s \in Slots \ {Target} : Complete(s)' <=> Complete(s)
  BY DEF Complete
<1>3. CASE \A s \in Slots : Complete(s)' => Complete(s)
  <2>1. \A s \in Slots : Complete(s)' = Complete(s)
    BY <1>3 DEF Complete
  <2>2. QED
    BY <2>1, SameInstallations, ZenonT(30)
<1>4. CASE \E s \in Slots : Complete(s)' /\ ~Complete(s)
  <2>1. PICK s \in Slots : Complete(s)' /\ ~Complete(s)
    BY <1>4
  <2>2. s = Target
    BY <1>2, <2>1
  <2>3. part[s].job \in 1 .. MaxJobs
    <3>1. part'[s].fill = "whole"
      BY <2>1 DEF Complete
    <3>2. part[s].fill = "whole"
      BY <3>1
    <3>3. QED
      BY <3>2, CompleteFacts
  <2>4. AbsRoot[s] = 0 /\ AbsRoot' = [AbsRoot EXCEPT ![s] = part[s].job]
    <3>1. AbsRoot' = [r \in Slots |-> IF r = s THEN part[s].job ELSE IF Complete(r) THEN part[r].job ELSE 0]
      BY <1>2, <2>1, <2>2 DEF AbsRoot
    <3>2. QED
      BY <2>1, <3>1, ZenonT(30) DEF AbsRoot
  <2>5. AbsCurrent' = AbsCurrent
    <3>1. CASE current = None
      BY <3>1 DEF AbsCurrent
    <3>2. CASE current \in Slots
      <4>1. Complete(current)' = Complete(current)
        BY <1>1, <3>2 DEF Complete
      <4>2. QED
        BY <4>1 DEF AbsCurrent
    <3>3. QED
      BY <1>1, <3>1, <3>2
  <2>6. QED
    BY <2>3, <2>4, <2>5, AbsFill, ZenonT(30)
<1>5. QED
  BY <1>3, <1>4, ZenonT(30)

(* Before the image is complete no write changes what SlotSpec sees. *)
LEMMA WriteStep ==
    ASSUME IInv, [Next]_vars, phase = "run", pc \in Streaming, known' = known, current' = current,
           \A s \in Slots : part'[s].grub => part[s].grub
    PROVE  UNCHANGED Abs!vars
<1>1. /\ "stream" \notin completed /\ "wipe" \in completed
      /\ Target \in Slots /\ cfg.preserve \in BOOLEAN
  BY ConfigFacts DEF IInv, Shape, Sequence, Open, Early, Streaming
<1>2. CASE cfg.preserve
  <2>1. table' = table /\ \A s \in Slots \ {Target} : part'[s] = part[s]
    BY <1>2, UpdateStep DEF Parts
  <2>2. ~part[Target].grub
    BY <1>1, <1>2 DEF IInv, NotYet, Open
  <2>3. \A s \in Slots : part'[s] = part[s] \/ (~part[s].grub /\ ~part'[s].grub)
    BY <1>1, <2>1, <2>2
  <2>4. QED
    BY <2>1, <2>3, SameInstallations DEF Complete
<1>3. CASE ~cfg.preserve
  <2>1. \A s \in Slots : ~part[s].grub /\ ~part'[s].grub
    BY <1>1, <1>3 DEF IInv, NotYet, Open
  <2>2. QED
    BY <2>1, NoInstallation
<1>4. QED
  BY <1>1, <1>2, <1>3

(* The disk and the slot that runs stay as they are. *)
LEMMA IdleStep ==
    ASSUME IInv, table' = table, part' = part, current' = current, known' = known
    PROVE  UNCHANGED Abs!vars
<1>1. \A s \in Slots : Complete(s)' = Complete(s) /\ part'[s].job = part[s].job
  BY DEF Complete
<1>2. QED
  BY <1>1, SameInstallations

(* Every step of the disk is a step of SlotSpec or changes nothing there. *)
LEMMA NextAbs == ASSUME IInv, Erased, [Next]_vars PROVE Abs!Next \/ UNCHANGED Abs!vars
<1>1. Target \in Slots /\ Target \in Parts /\ part \in [Parts -> Content] /\ cfg.preserve \in BOOLEAN
      /\ Target # "esp" /\ "esp" \in Parts
  BY ConfigFacts DEF IInv, Shape, Parts, Slots
<1>2. CASE NewJob
  <2>1. table' = table /\ part' = part /\ current' = current /\ known' \in BOOLEAN
    BY <1>2 DEF NewJob, disk
  <2>2. \A s \in Slots : Complete(s)' = Complete(s)
    BY <2>1 DEF Complete
  <2>3. AbsRoot' = AbsRoot
    BY <2>1, <2>2 DEF AbsRoot
  <2>4. AbsCurrent' = AbsCurrent
    BY <2>1 DEF AbsCurrent, Complete
  <2>5. QED
    BY <2>1, <2>3, <2>4, AbsJob
<1>3. CASE \/ Again \/ StepFails \/ PowerLoss \/ reportSuccess \/ powerOff
           \/ streamVerified \/ seedNotNeeded \/ seedBegins \/ cleanFails \/ seedCopies
           \/ removeSeedInProgressMarker \/ UNCHANGED vars
  BY <1>3, IdleStep DEF Again, StepFails, PowerLoss, reportSuccess, powerOff, streamVerified, seedNotNeeded,
     seedBegins, cleanFails, seedCopies, removeSeedInProgressMarker, Finish, disk, vars
<1>4. CASE openSourceFails \/ stagingFails \/ streamImage
  <2>1. table' = table /\ part' = part /\ current' = current
    BY <1>4 DEF openSourceFails, stagingFails, streamImage, disk
  <2>2. known' = known
    <3>1. CASE openSourceFails \/ stagingFails
      BY <3>1 DEF openSourceFails, stagingFails, streamError
    <3>2. CASE streamImage
      BY <3>2 DEF streamImage, streamError
    <3>3. QED
      BY <1>4, <3>1, <3>2
  <2>3. QED
    BY <2>1, <2>2, IdleStep
<1>5. CASE wipeDisks \/ applyPartitionLayout
  <2>1. known' = known /\ current' \in {current, None}
    BY <1>5 DEF wipeDisks, applyPartitionLayout, Finish
  <2>2. (table' = table /\ part' = part /\ current' = current) \/ part' = [p \in Parts |-> Blank]
    BY <1>5 DEF wipeDisks, applyPartitionLayout, EmptyDisk, disk
  <2>3. QED
    BY <2>1, <2>2, IdleStep, EmptyStep
<1>6. CASE prepareABTargetSlot
  <2>1. phase = "run" /\ known' = known
    BY <1>6 DEF prepareABTargetSlot, Running, streamError
  <2>2. CASE ~validateABPreserveExistingLayout
    BY <1>6, <2>1, <2>2, IdleStep DEF prepareABTargetSlot, disk
  <2>3. CASE validateABPreserveExistingLayout /\ cfg.preserve
    <3>1. /\ part' = [part EXCEPT ![Target] = Blank] /\ table' = table
          /\ current' = IF current = Target THEN None ELSE current
      BY <1>6, <2>3, ConfigFacts DEF prepareABTargetSlot, IInv, Shape
    <3>2. QED
      BY <2>1, <2>3, <3>1, PrepareAbs
  <2>4. CASE validateABPreserveExistingLayout /\ ~cfg.preserve
    <3>1. current' = current /\ (part' = [p \in Parts |-> Blank] \/ (table' = table /\ part' = part))
      BY <1>6, <2>4 DEF prepareABTargetSlot, EmptyDisk, disk
    <3>2. QED
      BY <2>1, <3>1, IdleStep, EmptyStep
  <2>5. QED
    BY <1>1, <2>2, <2>3, <2>4
<1>7. ASSUME NEW p \in Parts, copyBegins(p) \/ copyEnds(p)
      PROVE  UNCHANGED Abs!vars
  <2>1. /\ phase = "run" /\ pc \in Streaming /\ known' = known /\ current' = current
    BY <1>7 DEF copyBegins, copyEnds, Running, Streaming
  <2>2. \A q \in Parts : q # p => part'[q] = part[q]
    BY <1>1, <1>7 DEF copyBegins, copyEnds
  <2>3. part'[p].grub => part[p].grub
    <3>1. CASE copyBegins(p)
      BY <1>1, <3>1 DEF copyBegins, Blank
    <3>2. CASE copyEnds(p)
      BY <1>1, <3>2 DEF copyEnds, Content
    <3>3. QED
      BY <1>7, <3>1, <3>2
  <2>4. \A s \in Slots : part'[s].grub => part[s].grub
    BY <2>2, <2>3 DEF Parts
  <2>5. QED
    BY <2>1, <2>4, WriteStep
<1>8. CASE copyFails \/ streamMismatch
  <2>1. PICK permanent \in BOOLEAN : streamFails(permanent)
    BY <1>8, ZenonT(30) DEF copyFails, streamMismatch
  <2>2. phase = "run" /\ pc \in Streaming /\ known' = known /\ current' = current
    BY <1>8, <2>1 DEF copyFails, streamMismatch, streamFails, streamError, Running, Streaming
  <2>3. \A s \in Slots : part'[s] = part[s] \/ part'[s] = Blank
    BY <2>1 DEF streamFails, Parts
  <2>4. ASSUME NEW s \in Slots PROVE part'[s].grub => part[s].grub
    <3>1. CASE part'[s] = part[s]
      BY <3>1
    <3>2. CASE part'[s] = Blank
      <4>1. ~Blank.grub
        BY DEF Blank
      <4> QED BY <3>2, <4>1
    <3>3. QED
      BY <2>3, <3>1, <3>2
  <2>5. QED
    BY <2>2, <2>4, WriteStep
<1>9. CASE writeABSlotState \/ configureGRUB \/ installEFIFallbackLoader
  <2>1. /\ phase = "run" /\ pc \in {"fstab", "grub", "fallback"}
        /\ table' = table /\ known' = known /\ current' = current
    BY <1>9 DEF writeABSlotState, configureGRUB, installEFIFallbackLoader, Running, Finish
  <2>2. "stream" \in completed
    BY <2>1 DEF IInv, Sequence, Open, Late
  <2>3. /\ \A s \in Slots \ {Target} : part'[s] = part[s]
        /\ \A s \in Slots : part'[s].job = part[s].job /\ part'[s].fill = part[s].fill
        /\ \A s \in Slots : part[s].env = s => part'[s].env = s
        /\ \A s \in Slots : part[s].grub => part'[s].grub
    <3>1. \A s \in Slots : s \in Parts /\ s # "esp" /\ part[s] \in Content
      BY <1>1 DEF Parts, Slots
    <3>2. CASE writeABSlotState
      BY <1>1, <3>1, <3>2 DEF writeABSlotState, Content
    <3>3. CASE configureGRUB
      BY <1>1, <3>1, <3>3 DEF configureGRUB, Content
    <3>4. CASE installEFIFallbackLoader
      BY <1>1, <3>1, <3>4 DEF installEFIFallbackLoader, Content
    <3>5. QED
      BY <1>9, <3>2, <3>3, <3>4
  <2>4. \A s \in Slots : Complete(s) => Complete(s)'
    BY <2>1, <2>3 DEF Complete
  <2>5. QED
    BY <2>1, <2>2, <2>3, <2>4, FillStep
<1>10. CASE kexecHandoff \/ rebootHandoff \/ rebootHost
  BY <1>1, <1>10, FirmwareFacts, StartStep DEF kexecHandoff, rebootHandoff, rebootHost, boot, disk
<1>11. QED
  BY <1>2, <1>3, <1>4, <1>5, <1>6, <1>7, <1>8, <1>9, <1>10 DEF Next

(* The empty disk is the initial state of SlotSpec. *)
LEMMA InitAbs == Init => Abs!Init /\ Erased
<1>1. SUFFICES ASSUME Init PROVE Abs!Init /\ Erased
  OBVIOUS
<1>2. \A s \in Slots : ~Complete(s)
  BY <1>1 DEF Init, Complete, Blank, Parts
<1>3. AbsRoot = [s \in Slots |-> 0] /\ AbsCurrent = None /\ known \in BOOLEAN
  BY <1>1, <1>2 DEF Init, AbsRoot, AbsCurrent
<1>4. Erased
  BY <1>1 DEF Init, Erased, Open
<1>5. QED
  BY <1>3, <1>4 DEF Abs!Init, AbsRoot, AbsCurrent

(* Provisioning implements SlotSpec, for every number of jobs, tries and     *)
(* faults: slots change from one complete installation to none to another,   *)
(* and an update that knows the running slot leaves it alone.                *)
THEOREM ImplementsSlotSpecAlways == Spec => ImplementsSlotSpec
<1>1. Init => Abs!Init /\ Erased
  BY InitAbs
<1>2. IInv /\ Erased /\ [Next]_vars => Erased'
  BY NextErased
<1>3. IInv /\ Erased /\ [Next]_vars => [Abs!Next]_(Abs!vars)
  BY NextAbs
<1>4. QED
  BY <1>1, <1>2, <1>3, Invariance, PTL DEF Spec, ImplementsSlotSpec, Abs!Spec
=============================================================================
