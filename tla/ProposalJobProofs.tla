------------------------- MODULE ProposalJobProofs -------------------------
(***************************************************************************)
(* Theorems about ProposalJob, for every value of its constants.           *)
(***************************************************************************)
EXTENDS ProposalJob, TLAPS

\* The proofs about the store; the definitions it has of it are those of Store.
Queue == INSTANCE TrialQueueProofs

Notes == Specs \cup {Idea, Invalid, None}

\* What the jobs see of the trial store.
StoreOK ==
    /\ reserved \in [Runs -> Nat]
    /\ index \in [Runs \X Specs -> Nat]
    /\ notes \in [Runs -> [EventKeys -> Notes]]

(***************************************************************************)
(* The inductive invariant, in parts about one job.  CliInv: the package   *)
(* exists before the one invocation, and whatever the job later calls its  *)
(* response is what that invocation left in the scratch workspace.         *)
(***************************************************************************)
CliInv(j) ==
    /\ invoked[j] <= 1
    /\ disk[j].package = None => invoked[j] = 0 /\ disk[j].scratch = None
    /\ at[j] \in {"invoke", "wait"} => disk[j].package # None /\ disk[j].scratch = None
    /\ at[j] = "invoke" => invoked[j] = 0
    /\ disk[j].response \in {None, disk[j].scratch}
    /\ answer[j] \in {None, disk[j].scratch}

\* A file is written once, by the attempt that created it.
FileInv(j) ==
    /\ at[j] = "write spec" => disk[j].spec = Torn
    /\ at[j] = "write input" => disk[j].input = Torn
    /\ at[j] = "write proposal" => disk[j].proposal = Torn /\ answer[j] # None
    /\ at[j] = "write result" => disk[j].result = Torn
    /\ disk[j].proposal \in {None, Torn, disk[j].scratch}
    /\ disk[j].result \in {None, Torn, disk[j].proposal}

Trialled(s) == s \in Specs /\ index[<<Run, s>>] > 0

\* Candidate i of the job's proposal is an idea, or has its trial and both notes.
Accounted(j, i) ==
    LET s == disk[j].proposal[i] IN
        s # Idea => /\ Trialled(s)
                    /\ notes[Run][<<"submission", j, i>>] = s
                    /\ notes[Run][<<"reserved", j, i>>] = s

Submitting == {"submit", "reserve", "link"}

\* The candidates before the current one are accounted for, the current one as
\* far as the attempt has come.
ItemInv(j) ==
    /\ at[j] \in Submitting =>
         /\ disk[j].proposal \in Responses
         /\ item[j] <= Len(disk[j].proposal) + 1
         /\ \A i \in 1..(item[j] - 1) : Accounted(j, i)
    /\ at[j] \in {"reserve", "link"} =>
         /\ More(j)
         /\ Current(j) # Idea
         /\ notes[Run][Key("submission", j)] = Current(j)
    /\ at[j] = "link" => Trialled(Current(j))
    /\ at[j] \notin Submitting \cup {"result", "write result"} => item[j] = 1

\* The job has nothing left to submit once it is about to publish.
Publishing(j) ==
    \/ at[j] = "result" /\ disk[j].result = None
    \/ at[j] = "write result"
    \/ disk[j].result \notin {None, Torn}

PublishInv(j) ==
    Publishing(j) =>
        /\ disk[j].proposal \in Responses
        /\ \A i \in 1..Len(disk[j].proposal) : Accounted(j, i)

JobInv(j) == CliInv(j) /\ FileInv(j) /\ ItemInv(j) /\ PublishInv(j)
JobsInv == \A j \in Jobs : JobInv(j)

LinksInv ==
    \A j \in Jobs, i \in 1..2 : notes[Run][<<"reserved", j, i>>] \in Specs \cup {None}

IInv == TypeOK /\ StoreOK /\ JobsInv /\ TrialsTraceable /\ LinksInv

-----------------------------------------------------------------------------
\* What a call of the store leaves for the other jobs: trials and notes stay.
StoreGrows ==
    /\ \A s \in Specs : Trialled(s) => Trialled(s)'
    /\ \A k \in EventKeys : notes[Run][k] # None => notes'[Run][k] = notes[Run][k]

LEMMA NoteEffect ==
    ASSUME StoreOK, NEW k \in EventKeys, NEW c \in Notes, Note(k, c)
    PROVE  /\ StoreOK' /\ StoreGrows /\ index' = index
           /\ notes[Run][k] \in {None, c} /\ notes'[Run][k] = c
           /\ \A l \in EventKeys : l # k => notes'[Run][l] = notes[Run][l]
<1> USE OtherAssumption
<1>1. CASE notes[Run][k] = None
  <2>1. notes' = [notes EXCEPT ![Run][k] = c] /\ UNCHANGED <<reserved, index>>
    BY <1>1 DEF Note, Store!AppendGraphEvent
  <2>2. notes'[Run] = [notes[Run] EXCEPT ![k] = c]
    BY <2>1 DEF StoreOK
  <2>3. notes' \in [Runs -> [EventKeys -> Notes]]
    BY <2>1 DEF StoreOK
  <2>4. notes'[Run][k] = c /\ \A l \in EventKeys : l # k => notes'[Run][l] = notes[Run][l]
    BY <2>2 DEF StoreOK
  <2>5. QED
    BY <1>1, <2>1, <2>3, <2>4 DEF StoreOK, StoreGrows, Trialled
<1>2. CASE notes[Run][k] # None
  BY <1>2 DEF Note, store, StoreOK, StoreGrows, Trialled
<1>3. QED
  BY <1>1, <1>2

LEMMA ReserveEffect ==
    ASSUME StoreOK, NEW s \in Specs, Store!ReserveTrial(Run, s)
    PROVE  /\ StoreOK' /\ StoreGrows /\ notes' = notes
           /\ Trialled(s)'
           /\ \A u \in Specs : u # s => (Trialled(u)' <=> Trialled(u))
<1> USE OtherAssumption
<1>1. /\ reserved' = [reserved EXCEPT ![Run] = @ + 1]
      /\ index' = [index EXCEPT ![<<Run, s>>] = reserved[Run] + 1]
      /\ notes' = notes
  BY DEF Store!ReserveTrial
<1>2. reserved[Run] \in Nat /\ reserved[Run] + 1 \in Nat /\ reserved[Run] + 1 > 0
  BY DEF StoreOK
<1>3. index'[<<Run, s>>] > 0 /\ \A u \in Specs : u # s => index'[<<Run, u>>] = index[<<Run, u>>]
  BY <1>1, <1>2 DEF StoreOK
<1>4. StoreOK'
  BY <1>1, <1>2 DEF StoreOK
<1>5. QED
  BY <1>1, <1>3, <1>4 DEF StoreGrows, Trialled

LEMMA SameStore ==
    ASSUME StoreOK, UNCHANGED store
    PROVE  StoreOK' /\ StoreGrows /\ notes' = notes /\ index' = index
  BY DEF StoreOK, StoreGrows, store, Trialled

\* A checkpoint changes one file of one job.
FileNames == {"spec", "input", "package", "scratch", "response", "proposal", "result"}

LEMMA FillEffect ==
    ASSUME TypeOK, NEW j \in Jobs, NEW file \in FileNames, NEW content, Fill(j, file, content)
    PROVE  /\ disk'[j][file] = content
           /\ \A f \in FileNames : f # file => disk'[j][f] = disk[j][f]
           /\ \A p \in Jobs : p # j => disk'[p] = disk[p]
<1>1. disk[j] \in Contents /\ DOMAIN disk[j] = FileNames
  BY DEF TypeOK, Contents, FileNames
<1>2. disk'[j] = [disk[j] EXCEPT ![file] = content]
  BY DEF Fill, TypeOK
<1>3. QED
  BY <1>1, <1>2 DEF Fill, TypeOK

\* The candidate being submitted.
LEMMA CurrentType ==
    ASSUME TypeOK, NEW j \in Jobs, disk[j].proposal \in Responses, More(j)
    PROVE  /\ item[j] \in 1..2 /\ item[j] + 1 \in 1..3
           /\ Current(j) \in Candidates /\ Current(j) \in Notes \ {None}
           /\ \A kind \in {"submission", "rejected", "reserved"} : Key(kind, j) \in EventKeys
<1>1. PICK r \in Responses : r = disk[j].proposal
  OBVIOUS
<1>2. r \in Seq(Candidates) /\ Len(r) \in Nat /\ Len(r) <= 2
  BY ResponsesAssumption, OtherAssumption
<1>3. item[j] \in 1..3 /\ item[j] <= Len(r)
  BY <1>1 DEF TypeOK, More
<1>4. item[j] \in 1..2 /\ item[j] + 1 \in 1..3
  BY <1>2, <1>3
<1>5. Current(j) \in Candidates
  BY <1>1, <1>2, <1>3 DEF Current
<1>6. QED
  BY <1>4, <1>5, KeysAssumption, OtherAssumption DEF Candidates, Notes, Key

-----------------------------------------------------------------------------
\* The steps of one job, by what they touch.
JobStep(j) == Start(j) \/ Killed(j) \/ Unreported(j) \/ FileStep(j) \/ CliStep(j) \/ SubmitStep(j)

\* The files of a job keep their types.
LEMMA FilledType ==
    ASSUME TypeOK, NEW j \in Jobs, NEW file \in FileNames, NEW content,
           Fill(j, file, content),
           \/ file = "spec" /\ content \in {Torn, "frozen"}
           \/ file = "input" /\ content \in {Torn} \cup SUBSET Jobs
           \/ file = "package" /\ content = "created"
           \/ file \in {"scratch", "response"} /\ content \in Responses \cup {None}
           \/ file \in {"proposal", "result"} /\ content \in Responses \cup {None, Torn}
    PROVE  disk' \in [Jobs -> Contents]
<1>1. disk[j] \in Contents
  BY DEF TypeOK
<1>2. [disk[j] EXCEPT ![file] = content] \in Contents
  BY <1>1 DEF Contents, FileNames
<1>3. QED
  BY <1>2 DEF Fill, TypeOK

\* Which steps touch which variable.
LEMMA Touches ==
    ASSUME NEW j \in Jobs, JobStep(j)
    PROVE  /\ \/ UNCHANGED disk
              \/ CreateSpec(j) \/ WriteSpec(j) \/ CreateInput(j) \/ WriteInput(j)
              \/ CreatePackage(j) \/ \E r \in Responses : Responds(j, r)
              \/ CopyResponse(j) \/ CreateProposal(j) \/ WriteProposal(j)
              \/ CreateResult(j) \/ WriteResult(j)
           /\ UNCHANGED memory \/ CreateInput(j) \/ memory' = [memory EXCEPT ![j] = {}]
           /\ UNCHANGED answer \/ CopyResponse(j) \/ FindsResponse(j)
              \/ answer' = [answer EXCEPT ![j] = None]
           /\ UNCHANGED item \/ SkipIdea(j) \/ Link(j) \/ item' = [item EXCEPT ![j] = 1]
           /\ UNCHANGED tries \/ Start(j)
           /\ UNCHANGED invoked \/ Invoke(j)
           /\ UNCHANGED open
           /\ UNCHANGED store \/ Submit(j) \/ RejectFormula(j) \/ ReserveNew(j) \/ Link(j)
<1> USE DEF local, Ends, Raise, NextItem
<1>1. CASE FileStep(j)
  BY <1>1
  DEF FileStep, FindsTorn, CreateSpec, WriteSpec, FindsSpec, Plan, PlanClosed, MemoryTorn,
      CreateInput, WriteInput, FindsInput, CreateProposal, WriteProposal, FindsProposal,
      CreateResult, WriteResult, FindsResult
<1>2. CASE CliStep(j)
  BY <1>2
  DEF CliStep, CreatePackage, Invoke, Responds, CliFails, CopyResponse, FindsResponse, Interrupted
<1>3. CASE SubmitStep(j)
  BY <1>3
  DEF SubmitStep, SkipIdea, RunClosed, Submit, RejectFormula, ReserveNew, ReserveKnown,
      NoBudget, Link, AllSubmitted
<1>4. CASE Start(j) \/ Killed(j) \/ Unreported(j)
  BY <1>4 DEF Start, Killed, Unreported
<1>5. QED
  BY <1>1, <1>2, <1>3, <1>4 DEF JobStep

LEMMA AtType ==
    ASSUME TypeOK, NEW j \in Jobs, JobStep(j)
    PROVE  at' \in [Jobs -> Steps \cup {"down", "done"}]
<1>1. ASSUME NEW s \in Steps \cup {"down", "done"}, Goes(j, s)
      PROVE  at' \in [Jobs -> Steps \cup {"down", "done"}]
  BY <1>1 DEF Goes, TypeOK
<1>2. CASE UNCHANGED at
  BY <1>2 DEF TypeOK
<1>3. CASE FileStep(j)
  BY <1>1, <1>3
  DEF FileStep, FindsTorn, CreateSpec, WriteSpec, FindsSpec, Plan, PlanClosed, MemoryTorn,
      CreateInput, WriteInput, FindsInput, CreateProposal, WriteProposal, FindsProposal,
      CreateResult, WriteResult, FindsResult, Raise, Ends, AfterSpec, Steps, Files
<1>4. CASE CliStep(j) \/ SubmitStep(j)
  BY <1>1, <1>2, <1>4
  DEF CliStep, CreatePackage, Invoke, Responds, CliFails, CopyResponse, FindsResponse,
      Interrupted, SubmitStep, SkipIdea, RunClosed, Submit, RejectFormula, ReserveNew,
      ReserveKnown, NoBudget, Link, AllSubmitted, NextItem, Raise, Ends, Steps, Files
<1>5. CASE Start(j) \/ Killed(j) \/ Unreported(j)
  BY <1>1, <1>5 DEF Start, Killed, Unreported, Ends, Steps, Files
<1>6. QED
  BY <1>3, <1>4, <1>5 DEF JobStep

LEMMA TypeStep == ASSUME IInv, [Next]_vars PROVE TypeOK'
<1> USE DEF IInv
<1>1. ASSUME NEW j \in Jobs, JobStep(j) PROVE disk' \in [Jobs -> Contents]
  <2>1. CASE UNCHANGED disk
    BY <2>1 DEF TypeOK
  <2>2. CASE WriteProposal(j) \/ CreateProposal(j) \/ CreateResult(j)
    BY <2>2, FilledType
    DEF WriteProposal, CreateProposal, CreateResult, Create, FileNames, TypeOK
  <2>3. CASE CreateSpec(j) \/ WriteSpec(j) \/ CreateInput(j) \/ WriteInput(j) \/ CreatePackage(j)
    BY <2>3, FilledType
    DEF CreateSpec, WriteSpec, CreateInput, WriteInput, CreatePackage, Create, FileNames, TypeOK
  <2>4. ASSUME NEW r \in Responses, Responds(j, r) PROVE disk' \in [Jobs -> Contents]
    BY <2>4, FilledType DEF Responds, FileNames
  <2>5. /\ disk[j].scratch \in Responses \cup {None}
        /\ disk[j].proposal \in Responses \cup {None, Torn}
    BY DEF TypeOK, Contents
  <2>6. CASE CopyResponse(j) \/ WriteResult(j)
    BY <2>5, <2>6, FilledType DEF CopyResponse, WriteResult, FileNames
  <2>7. QED
    BY <1>1, <2>1, <2>2, <2>3, <2>4, <2>6, Touches
<1>2. ASSUME NEW j \in Jobs, JobStep(j) PROVE memory' \in [Jobs -> SUBSET Jobs]
  <2>1. Proposed \in SUBSET Jobs
    BY DEF Proposed
  <2>2. CASE CreateInput(j)
    BY <2>1, <2>2, Zenon DEF TypeOK, CreateInput
  <2>3. CASE memory' = [memory EXCEPT ![j] = {}]
    BY <2>3 DEF TypeOK
  <2>4. QED
    BY <1>2, <2>2, <2>3, Touches DEF TypeOK
<1>3. ASSUME NEW j \in Jobs, JobStep(j) PROVE answer' \in [Jobs -> Responses \cup {None}]
  <2>1. disk[j].scratch \in Responses \cup {None} /\ disk[j].response \in Responses \cup {None}
    BY DEF TypeOK, Contents
  <2>2. QED
    BY <1>3, <2>1, Touches DEF TypeOK, CopyResponse, FindsResponse
<1>4. ASSUME NEW j \in Jobs, JobStep(j) PROVE item' \in [Jobs -> 1..3]
  <2>1. ASSUME SkipIdea(j) \/ Link(j) PROVE item[j] + 1 \in 1..3
    BY <2>1, CurrentType DEF SkipIdea, Link, JobsInv, JobInv, ItemInv, Submitting
  <2>2. CASE SkipIdea(j) \/ Link(j)
    BY <2>1, <2>2 DEF SkipIdea, Link, NextItem, TypeOK
  <2>3. QED
    BY <1>4, <2>2, Touches DEF TypeOK
<1>5. ASSUME NEW j \in Jobs, JobStep(j)
      PROVE  tries' \in [Jobs -> 0..MaxTries] /\ invoked' \in [Jobs -> 0..MaxTries]
  <2>1. MaxTries \in Nat \ {0}
    BY OtherAssumption
  <2>2. ASSUME Start(j) PROVE tries' \in [Jobs -> 0..MaxTries]
    BY <2>1, <2>2 DEF Start, TypeOK
  <2>3. ASSUME Invoke(j) PROVE invoked' \in [Jobs -> 0..MaxTries]
    BY <2>1, <2>3 DEF Invoke, TypeOK, JobsInv, JobInv, CliInv
  <2>4. QED
    BY <1>5, <2>2, <2>3, Touches DEF TypeOK
<1>6. ASSUME NEW j \in Jobs, JobStep(j) PROVE TypeOK'
  <2>1. open' \in BOOLEAN
    BY <1>6, Touches DEF TypeOK
  <2>2. QED
    BY <1>1, <1>2, <1>3, <1>4, <1>5, <1>6, AtType, <2>1 DEF TypeOK
<1>7. CASE \E s \in Foreign : OthersReserve(s)
  BY <1>7 DEF OthersReserve, TypeOK, local
<1>8. CASE RunExpires
  BY <1>8 DEF RunExpires, TypeOK, local
<1>9. CASE UNCHANGED vars
  BY <1>9 DEF vars, TypeOK
<1>10. QED
  BY <1>6, <1>7, <1>8, <1>9 DEF Next, JobStep

LEMMA StoreStep == ASSUME IInv, [Next]_vars PROVE StoreOK' /\ StoreGrows
<1> USE DEF IInv
<1>1. ASSUME NEW j \in Jobs, JobStep(j) PROVE StoreOK' /\ StoreGrows
  <2>1. CASE UNCHANGED store
    BY <2>1, SameStore
  <2>2. CASE Submit(j) \/ RejectFormula(j) \/ ReserveNew(j) \/ Link(j)
    <3>1. disk[j].proposal \in Responses /\ More(j)
      BY <2>2 DEF Submit, RejectFormula, ReserveNew, Link, JobsInv, JobInv, ItemInv, Submitting
    <3>2. Current(j) \in Notes /\ Invalid \in Notes
      BY <3>1, CurrentType DEF Notes
    <3>3. \A kind \in {"submission", "rejected", "reserved"} : Key(kind, j) \in EventKeys
      BY <3>1, CurrentType
    <3>4. QED
      BY <2>2, <3>2, <3>3, NoteEffect, ReserveEffect DEF Submit, RejectFormula, ReserveNew, Link
  <2>3. QED
    BY <1>1, <2>1, <2>2, Touches
<1>2. ASSUME NEW s \in Foreign, OthersReserve(s) PROVE StoreOK' /\ StoreGrows
  BY <1>2, ReserveEffect, OtherAssumption DEF OthersReserve
<1>3. CASE RunExpires \/ UNCHANGED vars
  BY <1>3, SameStore DEF RunExpires, vars
<1>4. QED
  BY <1>1, <1>2, <1>3 DEF Next, JobStep

-----------------------------------------------------------------------------
\* A step leaves the other jobs' files and processes alone.
Untouched(p) ==
    /\ disk'[p] = disk[p] /\ at'[p] = at[p]
    /\ answer'[p] = answer[p] /\ item'[p] = item[p] /\ invoked'[p] = invoked[p]

LEMMA OthersUntouched ==
    ASSUME TypeOK, NEW j \in Jobs, JobStep(j), NEW p \in Jobs, p # j
    PROVE  Untouched(p)
<1>1. disk'[p] = disk[p]
  <2>1. ASSUME NEW file, NEW content, Fill(j, file, content)
        PROVE  disk'[p] = disk[p]
    BY <2>1 DEF Fill, TypeOK
  <2>2. QED
    BY <2>1, Touches
    DEF CreateSpec, WriteSpec, CreateInput, WriteInput, CreatePackage, Responds,
        CopyResponse, CreateProposal, WriteProposal, CreateResult, WriteResult, Create
<1>2. at'[p] = at[p]
  <2>1. ASSUME NEW s, Goes(j, s) PROVE at'[p] = at[p]
    BY <2>1 DEF Goes, TypeOK
  <2>2. CASE UNCHANGED at
    BY <2>2
  <2>3. CASE FileStep(j)
    BY <2>1, <2>3
    DEF FileStep, FindsTorn, CreateSpec, WriteSpec, FindsSpec, Plan, PlanClosed, MemoryTorn,
        CreateInput, WriteInput, FindsInput, CreateProposal, WriteProposal, FindsProposal,
        CreateResult, WriteResult, FindsResult, Raise, Ends
  <2>4. CASE CliStep(j) \/ SubmitStep(j)
    BY <2>1, <2>2, <2>4
    DEF CliStep, CreatePackage, Invoke, Responds, CliFails, CopyResponse, FindsResponse,
        Interrupted, SubmitStep, SkipIdea, RunClosed, Submit, RejectFormula, ReserveNew,
        ReserveKnown, NoBudget, Link, AllSubmitted, NextItem, Raise, Ends
  <2>5. CASE Start(j) \/ Killed(j) \/ Unreported(j)
    BY <2>1, <2>5 DEF Start, Killed, Unreported, Ends
  <2>6. QED
    BY <2>3, <2>4, <2>5 DEF JobStep
<1>3. answer'[p] = answer[p]
  BY Touches DEF TypeOK, CopyResponse, FindsResponse
<1>4. item'[p] = item[p]
  BY Touches DEF TypeOK, SkipIdea, Link, NextItem
<1>5. invoked'[p] = invoked[p]
  BY Touches DEF TypeOK, Invoke
<1>6. QED
  BY <1>1, <1>2, <1>3, <1>4, <1>5 DEF Untouched

\* A candidate that is accounted for stays so: the store loses nothing.
LEMMA AccountedKept ==
    ASSUME IInv, StoreGrows, NEW j \in Jobs, disk[j].proposal \in Responses,
           disk'[j].proposal = disk[j].proposal,
           NEW i \in 1..Len(disk[j].proposal), Accounted(j, i)
    PROVE  Accounted(j, i)'
<1>1. PICK r \in Responses : r = disk[j].proposal
  OBVIOUS
<1>2. i \in 1..2 /\ r[i] \in Candidates
  BY <1>1, ResponsesAssumption, OtherAssumption
<1>3. <<"submission", j, i>> \in EventKeys /\ <<"reserved", j, i>> \in EventKeys
  BY <1>2, KeysAssumption
<1>4. CASE r[i] = Idea
  BY <1>1, <1>4 DEF Accounted
<1>5. CASE r[i] # Idea
  <2>1. /\ Trialled(r[i]) /\ r[i] # None
        /\ notes[Run][<<"submission", j, i>>] = r[i] /\ notes[Run][<<"reserved", j, i>>] = r[i]
    BY <1>1, <1>2, <1>5, OtherAssumption DEF Accounted, Candidates
  <2>2. /\ Trialled(r[i])'
        /\ notes'[Run][<<"submission", j, i>>] = r[i] /\ notes'[Run][<<"reserved", j, i>>] = r[i]
    BY <1>3, <2>1 DEF StoreGrows, Trialled
  <2>3. QED
    BY <1>1, <2>2 DEF Accounted, Trialled
<1>6. QED
  BY <1>4, <1>5

LEMMA UntouchedKept ==
    ASSUME IInv, StoreGrows, NEW p \in Jobs, Untouched(p)
    PROVE  JobInv(p)'
<1>1. CliInv(p) /\ FileInv(p) /\ ItemInv(p) /\ PublishInv(p)
  BY DEF IInv, JobsInv, JobInv
<1>2. CliInv(p)' /\ FileInv(p)'
  BY <1>1 DEF CliInv, FileInv, Untouched
<1>3. \/ disk[p].proposal \notin Responses
      \/ \A i \in 1..Len(disk[p].proposal) : Accounted(p, i) => Accounted(p, i)'
  BY AccountedKept DEF Untouched
<1>4. ItemInv(p)'
  <2>1. ASSUME at[p] \in Submitting
        PROVE  /\ disk[p].proposal \in Responses
               /\ item[p] <= Len(disk[p].proposal) + 1
               /\ \A i \in 1..(item[p] - 1) : Accounted(p, i)'
    <3>1. /\ disk[p].proposal \in Responses
          /\ item[p] <= Len(disk[p].proposal) + 1
          /\ \A i \in 1..(item[p] - 1) : Accounted(p, i)
      BY <1>1, <2>1 DEF ItemInv
    <3>2. item[p] \in 1..3 /\ Len(disk[p].proposal) \in Nat
      BY <3>1, ResponsesAssumption DEF IInv, TypeOK
    <3>3. \A i \in 1..(item[p] - 1) : i \in 1..Len(disk[p].proposal)
      BY <3>1, <3>2
    <3>4. QED
      BY <1>3, <3>1, <3>3
  <2>2. ASSUME at[p] \in {"reserve", "link"}
        PROVE  /\ notes'[Run][Key("submission", p)] = Current(p)
               /\ at[p] = "link" => Trialled(Current(p))'
    <3>1. /\ disk[p].proposal \in Responses /\ More(p)
          /\ notes[Run][Key("submission", p)] = Current(p)
          /\ at[p] = "link" => Trialled(Current(p))
      BY <1>1, <2>2 DEF ItemInv, Submitting
    <3>2. PICK c \in Notes \ {None} : c = Current(p)
      BY <3>1, CurrentType DEF IInv
    <3>3. PICK k \in EventKeys : k = Key("submission", p)
      BY <3>1, CurrentType DEF IInv
    <3>4. notes'[Run][k] = c /\ (Trialled(c) => Trialled(c)')
      BY <3>1, <3>2, <3>3 DEF StoreGrows, Trialled
    <3>5. QED
      BY <3>1, <3>2, <3>3, <3>4 DEF Current, Trialled, Untouched
  <2>3. QED
    BY <1>1, <2>1, <2>2 DEF ItemInv, Untouched, More, Current, Key, Submitting
<1>5. PublishInv(p)'
  BY <1>1, <1>3 DEF PublishInv, Publishing, Untouched
<1>6. QED
  BY <1>2, <1>4, <1>5 DEF JobInv

-----------------------------------------------------------------------------
(* The job that takes the step. *)

LEMMA GoesEffect ==
    ASSUME TypeOK, NEW j \in Jobs, NEW s, Goes(j, s)
    PROVE  at'[j] = s
  BY DEF Goes, TypeOK

LEMMA EndsEffect ==
    ASSUME TypeOK, NEW j \in Jobs, NEW s, Ends(j, s)
    PROVE  at'[j] = s /\ answer'[j] = None /\ item'[j] = 1
  BY DEF Goes, Ends, TypeOK

LEMMA RaiseEffect ==
    ASSUME TypeOK, NEW j \in Jobs, Raise(j)
    PROVE  /\ at'[j] = "down" /\ answer'[j] = None /\ item'[j] = 1
           /\ UNCHANGED <<disk, invoked>>
  BY EndsEffect DEF Raise

LEMMA CliKept ==
    ASSUME IInv, NEW j \in Jobs, JobStep(j)
    PROVE  CliInv(j)'
<1> USE DEF IInv
<1>1. CliInv(j) /\ FileInv(j)
  BY DEF JobsInv, JobInv
<1>2. ASSUME at'[j] \notin {"invoke", "wait"},
             UNCHANGED <<disk, invoked>>, answer'[j] \in {answer[j], None}
      PROVE  CliInv(j)'
  BY <1>1, <1>2 DEF CliInv
<1>3. ASSUME NEW file \in {"spec", "input", "proposal", "result"}, NEW content,
             Fill(j, file, content), at'[j] \notin {"invoke", "wait"},
             UNCHANGED invoked, answer'[j] \in {answer[j], None}
      PROVE  CliInv(j)'
  <2>1. /\ disk'[j].package = disk[j].package /\ disk'[j].scratch = disk[j].scratch
        /\ disk'[j].response = disk[j].response
    BY <1>3, FillEffect DEF FileNames
  <2>2. QED
    BY <1>1, <1>3, <2>1 DEF CliInv
<1>4. CASE CreatePackage(j)
  <2>1. at'[j] = "invoke" /\ UNCHANGED <<invoked, answer>>
    BY <1>4, GoesEffect, EndsEffect DEF CreatePackage, local
  <2>2. /\ disk'[j].package = "created" /\ disk'[j].scratch = disk[j].scratch
        /\ disk'[j].response = disk[j].response
    BY <1>4, FillEffect DEF CreatePackage, FileNames
  <2>3. QED
    BY <1>1, <1>4, <2>1, <2>2, OtherAssumption DEF CliInv, CreatePackage
<1>5. CASE Invoke(j)
  BY <1>1, <1>5, GoesEffect, EndsEffect DEF Invoke, CliInv, TypeOK, local
<1>6. ASSUME NEW r \in Responses, Responds(j, r) PROVE CliInv(j)'
  <2>1. at'[j] = "copy" /\ UNCHANGED <<invoked, answer>>
    BY <1>6, GoesEffect, EndsEffect DEF Responds, local
  <2>2. /\ disk'[j].package = disk[j].package /\ disk'[j].scratch = r
        /\ disk'[j].response = disk[j].response
    BY <1>6, FillEffect DEF Responds, FileNames
  <2>3. QED
    BY <1>1, <1>6, <2>1, <2>2, OtherAssumption DEF CliInv, Responds
<1>7. CASE CopyResponse(j)
  <2>1. at'[j] = "proposal" /\ UNCHANGED invoked /\ answer'[j] = disk[j].scratch
    BY <1>7, GoesEffect, EndsEffect DEF CopyResponse, TypeOK
  <2>2. /\ disk'[j].package = disk[j].package /\ disk'[j].scratch = disk[j].scratch
        /\ disk'[j].response = disk[j].scratch
    BY <1>7, FillEffect DEF CopyResponse, FileNames
  <2>3. QED
    BY <1>1, <1>7, <2>1, <2>2 DEF CliInv, CopyResponse
<1>8. CASE FindsResponse(j)
  BY <1>1, <1>8 DEF FindsResponse, CliInv, TypeOK
<1>9. CASE CliFails(j) \/ Interrupted(j)
  BY <1>2, <1>9, GoesEffect, EndsEffect DEF CliFails, Interrupted, Raise
<1>10. CASE Start(j) \/ Killed(j) \/ Unreported(j)
  BY <1>2, <1>10, GoesEffect, EndsEffect DEF Start, Killed, Unreported, local
<1>11. CASE SubmitStep(j)
  BY <1>2, <1>11, GoesEffect, EndsEffect
  DEF SubmitStep, SkipIdea, RunClosed, Submit, RejectFormula, ReserveNew, ReserveKnown,
      NoBudget, Link, AllSubmitted, NextItem, Raise, local
<1>12. CASE FindsTorn(j) \/ FindsSpec(j) \/ Plan(j) \/ PlanClosed(j) \/ MemoryTorn(j)
            \/ FindsInput(j) \/ FindsProposal(j) \/ FindsResult(j)
  BY <1>2, <1>12, GoesEffect, EndsEffect
  DEF FindsTorn, FindsSpec, Plan, PlanClosed, MemoryTorn, FindsInput, FindsProposal,
      FindsResult, AfterSpec, Raise, local
<1>13. CASE CreateSpec(j) \/ WriteSpec(j) \/ CreateInput(j) \/ WriteInput(j)
            \/ CreateProposal(j) \/ WriteProposal(j) \/ CreateResult(j) \/ WriteResult(j)
  <2>1. \E file \in {"spec", "input", "proposal", "result"} :
            \E content : Fill(j, file, content)
    BY <1>13
    DEF CreateSpec, WriteSpec, CreateInput, WriteInput, CreateProposal, WriteProposal,
        CreateResult, WriteResult, Create
  <2>2. at'[j] \notin {"invoke", "wait"} /\ UNCHANGED invoked /\ answer'[j] \in {answer[j], None}
    <3>1. CASE CreateSpec(j) \/ WriteSpec(j) \/ CreateInput(j) \/ WriteInput(j)
      BY <3>1, GoesEffect, EndsEffect
      DEF CreateSpec, WriteSpec, CreateInput, WriteInput, AfterSpec, local
    <3>2. CASE CreateProposal(j) \/ WriteProposal(j) \/ CreateResult(j) \/ WriteResult(j)
      <4>1. CASE WriteResult(j)
        <5>1. Ends(j, "done")
          BY <4>1 DEF WriteResult
        <5>2. UNCHANGED invoked
          BY <4>1 DEF WriteResult
        <5>3. at'[j] = "done" /\ answer'[j] = None
          BY <5>1, EndsEffect
        <5>4. QED
          BY <5>2, <5>3
      <4>2. CASE CreateProposal(j) \/ WriteProposal(j) \/ CreateResult(j)
        BY <4>2, GoesEffect, EndsEffect DEF CreateProposal, WriteProposal, CreateResult, local
      <4>3. QED
        BY <3>2, <4>1, <4>2
    <3>3. QED
      BY <1>13, <3>1, <3>2
  <2>3. QED
    BY <1>3, <2>1, <2>2
<1>14. CASE FileStep(j)
  BY <1>12, <1>13, <1>14 DEF FileStep
<1>15. CASE CliStep(j)
  BY <1>4, <1>5, <1>6, <1>7, <1>8, <1>9, <1>15 DEF CliStep
<1>16. QED
  BY <1>10, <1>11, <1>14, <1>15 DEF JobStep

Writing == {"write spec", "write input", "write proposal", "write result"}

LEMMA CheckpointEffect ==
    ASSUME TypeOK, NEW j \in Jobs, NEW file \in {"spec", "input"}, NEW content,
           Fill(j, file, content)
    PROVE  /\ disk'[j][file] = content /\ disk'[j].proposal = disk[j].proposal
           /\ disk'[j].scratch = disk[j].scratch /\ disk'[j].result = disk[j].result
<1>1. /\ file \in FileNames /\ file \notin {"proposal", "scratch", "result"}
      /\ {"proposal", "scratch", "result"} \subseteq FileNames
  BY DEF FileNames
<1>2. /\ disk'[j][file] = content
      /\ \A f \in FileNames : f # file => disk'[j][f] = disk[j][f]
  BY <1>1, FillEffect, Zenon
<1>3. QED
  BY <1>1, <1>2

LEMMA FileKept ==
    ASSUME IInv, NEW j \in Jobs, JobStep(j)
    PROVE  FileInv(j)'
<1> USE DEF IInv
<1>1. CliInv(j) /\ FileInv(j)
  BY DEF JobsInv, JobInv
<1>2. ASSUME UNCHANGED disk, at'[j] \notin Writing PROVE FileInv(j)'
  BY <1>1, <1>2 DEF FileInv, Writing
<1>3. ASSUME NEW file \in {"spec", "input"}, NEW content, Fill(j, file, content),
             at'[j] = "write spec" => file = "spec" /\ content = Torn,
             at'[j] = "write input" => file = "input" /\ content = Torn,
             at'[j] \notin {"write proposal", "write result"}
      PROVE  FileInv(j)'
  <2>1. /\ disk'[j][file] = content /\ disk'[j].proposal = disk[j].proposal
        /\ disk'[j].scratch = disk[j].scratch /\ disk'[j].result = disk[j].result
    BY <1>3, CheckpointEffect
  <2>2. CASE file = "spec"
    BY <1>1, <1>3, <2>1, <2>2 DEF FileInv
  <2>3. CASE file = "input"
    BY <1>1, <1>3, <2>1, <2>3 DEF FileInv
  <2>4. QED
    BY <2>2, <2>3
<1>4. CASE CreateSpec(j) \/ WriteSpec(j) \/ CreateInput(j) \/ WriteInput(j)
  <2>1. CASE CreateSpec(j)
    BY <1>3, <2>1, GoesEffect, EndsEffect DEF CreateSpec, Create
  <2>2. CASE WriteSpec(j)
    BY <1>3, <2>2, GoesEffect, EndsEffect DEF WriteSpec, AfterSpec
  <2>3. CASE CreateInput(j)
    BY <1>3, <2>3, GoesEffect, EndsEffect DEF CreateInput, Create
  <2>4. CASE WriteInput(j)
    BY <1>3, <2>4, GoesEffect, EndsEffect DEF WriteInput
  <2>5. QED
    BY <1>4, <2>1, <2>2, <2>3, <2>4
<1>5. CASE CreatePackage(j) \/ CopyResponse(j)
  <2>1. at'[j] \in {"invoke", "proposal"}
    BY <1>5, GoesEffect, EndsEffect DEF CreatePackage, CopyResponse
  <2>2. /\ disk'[j].proposal = disk[j].proposal /\ disk'[j].scratch = disk[j].scratch
        /\ disk'[j].result = disk[j].result
    BY <1>5, FillEffect DEF CreatePackage, CopyResponse, FileNames
  <2>3. QED
    BY <1>1, <2>1, <2>2 DEF FileInv
<1>6. ASSUME NEW r \in Responses, Responds(j, r) PROVE FileInv(j)'
  <2>1. at'[j] = "copy" /\ disk[j].scratch = None
    BY <1>1, <1>6, GoesEffect, EndsEffect DEF Responds, CliInv
  <2>2. /\ disk'[j].proposal = disk[j].proposal /\ disk'[j].scratch = r
        /\ disk'[j].result = disk[j].result
    BY <1>6, FillEffect DEF Responds, FileNames
  <2>3. QED
    BY <1>1, <2>1, <2>2 DEF FileInv
<1>7. CASE CreateProposal(j)
  <2>1. at'[j] = "write proposal" /\ answer'[j] = answer[j] /\ answer[j] # None
    BY <1>7, GoesEffect, EndsEffect DEF CreateProposal, local, Writing
  <2>2. /\ disk'[j].proposal = Torn /\ disk'[j].scratch = disk[j].scratch
        /\ disk'[j].result = disk[j].result
    <3>1. Fill(j, "proposal", Torn)
      BY <1>7 DEF CreateProposal, Create
    <3>2. QED
      BY <3>1, FillEffect DEF FileNames
  <2>3. disk[j].result \in {None, Torn}
    BY <1>1, <1>7 DEF FileInv, CreateProposal
  <2>4. QED
    BY <2>1, <2>2, <2>3 DEF FileInv
<1>8. CASE WriteProposal(j)
  <2>1. at'[j] = "submit" /\ answer[j] = disk[j].scratch
    BY <1>1, <1>8, GoesEffect, EndsEffect DEF WriteProposal, CliInv, FileInv
  <2>2. /\ disk'[j].proposal = answer[j] /\ disk'[j].scratch = disk[j].scratch
        /\ disk'[j].result = disk[j].result
    BY <1>8, FillEffect DEF WriteProposal, FileNames
  <2>3. disk[j].result \in {None, Torn}
    BY <1>1, <1>8 DEF FileInv, WriteProposal
  <2>4. QED
    BY <2>1, <2>2, <2>3 DEF FileInv
<1>9. CASE CreateResult(j) \/ WriteResult(j)
  <2>1. at'[j] = "done" \/ (at'[j] = "write result" /\ CreateResult(j))
    BY <1>9, GoesEffect, EndsEffect DEF CreateResult, WriteResult
  <2>2. /\ disk'[j].proposal = disk[j].proposal /\ disk'[j].scratch = disk[j].scratch
        /\ disk'[j].result = disk[j].proposal \/ disk'[j].result = Torn
        /\ CreateResult(j) => disk'[j].result = Torn
    <3>1. CASE CreateResult(j)
      BY <3>1, FillEffect DEF CreateResult, Create, FileNames
    <3>2. CASE WriteResult(j) /\ ~CreateResult(j)
      BY <3>2, FillEffect DEF WriteResult, FileNames
    <3>3. QED
      BY <1>9, <3>1, <3>2
  <2>3. QED
    BY <1>1, <2>1, <2>2 DEF FileInv
<1>10. CASE Killed(j) \/ FindsResult(j)
  <2>1. UNCHANGED disk /\ \E step \in {"down", "done"} : Ends(j, step)
    BY <1>10 DEF Killed, FindsResult
  <2>2. QED
    BY <1>2, <2>1, EndsEffect DEF Writing
<1>11. CASE Raise(j)
  BY <1>2, <1>11, RaiseEffect DEF Writing
<1>12. ASSUME UNCHANGED disk, NEW step, step \notin Writing, Goes(j, step) PROVE FileInv(j)'
  BY <1>2, <1>12, GoesEffect
<1>13. CASE FindsResponse(j)
  BY <1>1, <1>13 DEF FindsResponse, FileInv
<1>14. CASE SubmitStep(j)
  <2>1. CASE SkipIdea(j) \/ Submit(j) \/ ReserveNew(j) \/ ReserveKnown(j) \/ Link(j)
             \/ AllSubmitted(j)
    <3>1. UNCHANGED disk /\ \E step \in {"submit", "reserve", "link", "result"} : Goes(j, step)
      BY <2>1
      DEF SkipIdea, Submit, ReserveNew, ReserveKnown, Link, AllSubmitted, NextItem
    <3>2. QED
      BY <1>12, <3>1 DEF Writing
  <2>2. QED
    BY <1>11, <1>14, <2>1 DEF SubmitStep, RunClosed, RejectFormula, NoBudget
<1>15. CASE Start(j) \/ Unreported(j) \/ FindsSpec(j) \/ Plan(j) \/ FindsInput(j)
            \/ FindsProposal(j) \/ Invoke(j)
  <2>1. UNCHANGED disk /\ \E step \in {"down", "spec", "plan", "input", "proposal", "submit",
                                       "result", "wait"} : Goes(j, step)
    BY <1>15
    DEF Start, Unreported, FindsSpec, Plan, FindsInput, FindsProposal, Invoke, AfterSpec
  <2>2. QED
    BY <1>12, <2>1 DEF Writing
<1>16. CASE FileStep(j)
  BY <1>4, <1>7, <1>8, <1>9, <1>10, <1>11, <1>15, <1>16
  DEF FileStep, FindsTorn, PlanClosed, MemoryTorn
<1>17. CASE CliStep(j)
  BY <1>5, <1>6, <1>11, <1>13, <1>15, <1>17 DEF CliStep, CliFails, Interrupted
<1>18. QED
  BY <1>10, <1>14, <1>15, <1>16, <1>17 DEF JobStep

\* Four steps write a proposal or a result; four others lead to publishing.
LEMMA ProposalTouches ==
    ASSUME TypeOK, NEW j \in Jobs, JobStep(j),
           ~CreateProposal(j), ~WriteProposal(j), ~CreateResult(j), ~WriteResult(j)
    PROVE  disk'[j].proposal = disk[j].proposal /\ disk'[j].result = disk[j].result
<1>1. ASSUME NEW file \in {"spec", "input", "package", "scratch", "response"}, NEW content,
             Fill(j, file, content)
      PROVE  disk'[j].proposal = disk[j].proposal /\ disk'[j].result = disk[j].result
  BY <1>1, FillEffect DEF FileNames
<1>2. \/ UNCHANGED disk
      \/ \E file \in {"spec", "input", "package", "scratch", "response"} :
             \E content : Fill(j, file, content)
  BY Touches
  DEF CreateSpec, WriteSpec, CreateInput, WriteInput, CreatePackage, Responds, CopyResponse, Create
<1>3. QED
  BY <1>1, <1>2

LEMMA MoveEffect ==
    ASSUME TypeOK, NEW j \in Jobs, JobStep(j),
           ~AllSubmitted(j), ~CreateResult(j), ~WriteSpec(j), ~FindsSpec(j)
    PROVE  at'[j] \notin {"result", "write result"}
<1>1. CASE Raise(j)
  BY <1>1, RaiseEffect
<1>2. ASSUME NEW step, step \notin {"result", "write result"}, Goes(j, step)
      PROVE  at'[j] \notin {"result", "write result"}
  BY <1>2, GoesEffect
<1>3. ASSUME NEW step, step \notin {"result", "write result"}, Ends(j, step)
      PROVE  at'[j] \notin {"result", "write result"}
  BY <1>3, EndsEffect
<1>4. CASE FindsResponse(j)
  BY <1>4 DEF FindsResponse
<1>5. CASE SubmitStep(j)
  BY <1>1, <1>2, <1>5
  DEF SubmitStep, SkipIdea, RunClosed, Submit, RejectFormula, ReserveNew, ReserveKnown,
      NoBudget, Link, NextItem
<1>6. CASE FileStep(j)
  BY <1>1, <1>2, <1>3, <1>6
  DEF FileStep, FindsTorn, CreateSpec, Plan, PlanClosed, MemoryTorn, CreateInput, WriteInput,
      FindsInput, CreateProposal, WriteProposal, FindsProposal, WriteResult, FindsResult
<1>7. CASE CliStep(j)
  BY <1>1, <1>2, <1>4, <1>7
  DEF CliStep, CreatePackage, Invoke, Responds, CliFails, CopyResponse, Interrupted
<1>8. CASE Start(j) \/ Killed(j) \/ Unreported(j)
  BY <1>2, <1>3, <1>8 DEF Start, Killed, Unreported
<1>9. QED
  BY <1>5, <1>6, <1>7, <1>8 DEF JobStep

LEMMA PublishKept ==
    ASSUME IInv, StoreGrows, NEW j \in Jobs, JobStep(j)
    PROVE  PublishInv(j)'
<1> USE DEF IInv
<1>1. FileInv(j) /\ ItemInv(j) /\ PublishInv(j)
  BY DEF JobsInv, JobInv
<1>2. ASSUME Publishing(j), disk'[j].proposal = disk[j].proposal PROVE PublishInv(j)'
  <2>1. /\ disk[j].proposal \in Responses
        /\ \A i \in 1..Len(disk[j].proposal) : Accounted(j, i)
    BY <1>1, <1>2 DEF PublishInv
  <2>2. \A i \in 1..Len(disk[j].proposal) : Accounted(j, i)'
    BY <1>2, <2>1, AccountedKept
  <2>3. QED
    BY <1>2, <2>1, <2>2 DEF PublishInv
<1>3. CASE CreateProposal(j) \/ WriteProposal(j)
  <2>1. disk[j].proposal \notin Responses /\ disk'[j].result = disk[j].result
    BY <1>1, <1>3, FillEffect, OtherAssumption
    DEF CreateProposal, WriteProposal, Create, FileInv, FileNames
  <2>2. at'[j] \in {"write proposal", "submit"}
    BY <1>3, GoesEffect DEF CreateProposal, WriteProposal
  <2>3. ~Publishing(j)
    BY <1>1, <2>1 DEF PublishInv
  <2>4. QED
    BY <2>1, <2>2, <2>3 DEF PublishInv, Publishing
<1>4. CASE CreateResult(j) \/ WriteResult(j)
  <2>1. Publishing(j)
    BY <1>4 DEF CreateResult, WriteResult, Publishing
  <2>2. disk'[j].proposal = disk[j].proposal
    BY <1>4, FillEffect DEF CreateResult, WriteResult, Create, FileNames
  <2>3. QED
    BY <1>2, <2>1, <2>2
<1>5. CASE AllSubmitted(j)
  <2>1. disk[j].proposal \in Responses /\ ~More(j) /\ UNCHANGED disk
        /\ \A i \in 1..(item[j] - 1) : Accounted(j, i)
    BY <1>1, <1>5 DEF AllSubmitted, ItemInv, Submitting
  <2>2. Len(disk[j].proposal) \in Nat /\ item[j] \in 1..3
    BY <2>1, ResponsesAssumption DEF TypeOK
  <2>3. \A i \in 1..Len(disk[j].proposal) : Accounted(j, i)
    BY <2>1, <2>2 DEF More
  <2>4. \A i \in 1..Len(disk[j].proposal) : Accounted(j, i)'
    BY <2>1, <2>3, AccountedKept
  <2>5. QED
    BY <2>1, <2>4 DEF PublishInv
<1>6. CASE (WriteSpec(j) \/ FindsSpec(j)) /\ ~CreateProposal(j) /\ ~WriteProposal(j)
            /\ ~CreateResult(j) /\ ~WriteResult(j)
  <2>1. at'[j] = "plan" \/ (at'[j] = "result" /\ disk[j].result # None)
    BY <1>6, GoesEffect DEF WriteSpec, FindsSpec, AfterSpec
  <2>2. disk'[j].proposal = disk[j].proposal /\ disk'[j].result = disk[j].result
    BY <1>6, ProposalTouches
  <2>3. QED
    BY <1>2, <2>1, <2>2 DEF PublishInv, Publishing
<1>7. CASE /\ ~CreateProposal(j) /\ ~WriteProposal(j) /\ ~CreateResult(j) /\ ~WriteResult(j)
           /\ ~AllSubmitted(j) /\ ~WriteSpec(j) /\ ~FindsSpec(j)
  <2>1. at'[j] \notin {"result", "write result"}
    BY <1>7, MoveEffect
  <2>2. disk'[j].proposal = disk[j].proposal /\ disk'[j].result = disk[j].result
    BY <1>7, ProposalTouches
  <2>3. QED
    BY <1>2, <2>1, <2>2 DEF PublishInv, Publishing
<1>8. QED
  BY <1>3, <1>4, <1>5, <1>6, <1>7

LEMMA ItemKept ==
    ASSUME IInv, TypeOK', StoreGrows, NEW j \in Jobs, JobStep(j)
    PROVE  ItemInv(j)'
<1> USE DEF IInv
<1>1. CliInv(j) /\ FileInv(j) /\ ItemInv(j)
  BY DEF JobsInv, JobInv
\* Away from submit_formula() the attempt is at its first candidate.
<1>2. ASSUME at'[j] \notin Submitting, item'[j] = 1 PROVE ItemInv(j)'
  BY <1>2 DEF ItemInv, Submitting
<1>3. ASSUME at'[j] \in {"result", "write result"} PROVE ItemInv(j)'
  BY <1>3 DEF ItemInv, Submitting
<1>4. ASSUME at[j] \notin Submitting \cup {"result", "write result"}, UNCHANGED item,
             NEW step, step \notin Submitting, Goes(j, step)
      PROVE  ItemInv(j)'
  <2>1. item'[j] = 1 /\ at'[j] = step
    BY <1>1, <1>4, GoesEffect DEF ItemInv
  <2>2. QED
    BY <1>2, <1>4, <2>1
<1>5. CASE Raise(j)
  BY <1>2, <1>5, RaiseEffect DEF Submitting
<1>6. ASSUME NEW step \in {"down", "done"}, Ends(j, step) PROVE ItemInv(j)'
  BY <1>2, <1>6, EndsEffect DEF Submitting
\* The first candidate of a proposal.
<1>7. CASE WriteProposal(j) \/ FindsProposal(j)
  <2>1. at'[j] = "submit" /\ item'[j] = 1
    BY <1>1, <1>7, GoesEffect DEF WriteProposal, FindsProposal, ItemInv, Submitting, local
  <2>2. disk'[j].proposal \in Responses
    <3>1. CASE WriteProposal(j)
      <4>1. answer[j] \in Responses
        BY <1>1, <3>1 DEF WriteProposal, FileInv, TypeOK
      <4>2. disk'[j].proposal = answer[j]
        BY <3>1, FillEffect DEF WriteProposal, FileNames
      <4>3. QED
        BY <4>1, <4>2
    <3>2. CASE FindsProposal(j)
      BY <3>2 DEF FindsProposal
    <3>3. QED
      BY <1>7, <3>1, <3>2
  <2>3. Len(disk'[j].proposal) \in Nat
    BY <2>2, ResponsesAssumption
  <2>4. QED
    BY <2>1, <2>2, <2>3 DEF ItemInv, Submitting
<1>8. CASE FindsResponse(j)
  BY <1>1, <1>2, <1>8 DEF FindsResponse, ItemInv, Submitting
\* The attempt at candidate item[j].
<1>9. ASSUME at[j] \in Submitting, More(j)
      PROVE  /\ disk[j].proposal \in Responses
             /\ item[j] \in 1..Len(disk[j].proposal) /\ Len(disk[j].proposal) \in Nat
             /\ \A i \in 1..(item[j] - 1) : i \in 1..Len(disk[j].proposal) /\ Accounted(j, i)
  <2>1. disk[j].proposal \in Responses /\ \A i \in 1..(item[j] - 1) : Accounted(j, i)
    BY <1>1, <1>9 DEF ItemInv
  <2>2. item[j] \in 1..3 /\ Len(disk[j].proposal) \in Nat /\ item[j] <= Len(disk[j].proposal)
    BY <1>9, <2>1, ResponsesAssumption DEF More, TypeOK
  <2>3. QED
    BY <2>1, <2>2
<1>10. ASSUME at[j] \in Submitting, More(j), NextItem(j),
              NEW k \in 1..3, k = item[j], Accounted(j, k)'
       PROVE  ItemInv(j)'
  <2>1. at'[j] = "submit" /\ item'[j] = item[j] + 1 /\ UNCHANGED disk
    BY <1>10, GoesEffect DEF NextItem, TypeOK
  <2>2. /\ disk[j].proposal \in Responses
        /\ item[j] \in 1..Len(disk[j].proposal) /\ Len(disk[j].proposal) \in Nat
        /\ \A i \in 1..(item[j] - 1) : i \in 1..Len(disk[j].proposal) /\ Accounted(j, i)
    BY <1>9, <1>10
  <2>3. \A i \in 1..(item[j] - 1) : Accounted(j, i)'
    BY <2>1, <2>2, AccountedKept
  <2>4. \A i \in 1..(item'[j] - 1) : i \in 1..(item[j] - 1) \/ i = k
    BY <1>10, <2>1, <2>2
  <2>5. \A i \in 1..(item'[j] - 1) : Accounted(j, i)'
    BY <1>10, <2>3, <2>4
  <2>6. item'[j] <= Len(disk[j].proposal) + 1
    BY <2>1, <2>2
  <2>7. QED
    BY <2>1, <2>2, <2>5, <2>6 DEF ItemInv, Submitting
<1>11. ASSUME at[j] \in Submitting, More(j), Current(j) # Idea, UNCHANGED <<disk, item>>,
              at'[j] \in {"reserve", "link"},
              notes'[Run][Key("submission", j)] = Current(j),
              at'[j] = "link" => Trialled(Current(j))'
       PROVE  ItemInv(j)'
  <2>1. /\ disk[j].proposal \in Responses
        /\ item[j] \in 1..Len(disk[j].proposal) /\ Len(disk[j].proposal) \in Nat
        /\ \A i \in 1..(item[j] - 1) : i \in 1..Len(disk[j].proposal) /\ Accounted(j, i)
    BY <1>9, <1>11
  <2>2. \A i \in 1..(item[j] - 1) : Accounted(j, i)'
    BY <1>11, <2>1, AccountedKept
  <2>3. item[j] <= Len(disk[j].proposal) + 1
    BY <2>1
  <2>4. QED
    BY <1>11, <2>1, <2>2, <2>3 DEF ItemInv, Submitting, More, Current, Key
<1>12. ASSUME at[j] \in Submitting, More(j)
       PROVE  /\ Current(j) \in Notes \ {None}
              /\ \A kind \in {"submission", "rejected", "reserved"} : Key(kind, j) \in EventKeys
  BY <1>9, <1>12, CurrentType
<1>13. CASE SkipIdea(j)
  <2>1. at[j] \in Submitting /\ More(j) /\ Current(j) = Idea /\ NextItem(j)
    BY <1>13 DEF SkipIdea, Submitting
  <2>2. PICK k \in 1..3 : k = item[j]
    BY DEF TypeOK
  <2>3. Accounted(j, k)'
    BY <2>1, <2>2 DEF NextItem, Accounted, Current
  <2>4. QED
    BY <1>10, <2>1, <2>2, <2>3
<1>14. CASE Submit(j)
  <2>1. /\ at[j] \in Submitting /\ More(j) /\ Current(j) # Idea /\ at'[j] = "reserve"
        /\ Note(Key("submission", j), Current(j)) /\ UNCHANGED <<disk, item>>
    BY <1>14, GoesEffect DEF Submit, Submitting, local
  <2>2. Current(j) \in Notes /\ Key("submission", j) \in EventKeys
    BY <1>12, <2>1
  <2>3. notes'[Run][Key("submission", j)] = Current(j)
    BY <2>1, <2>2, NoteEffect
  <2>4. QED
    BY <1>11, <2>1, <2>3
<1>15. CASE ReserveNew(j) \/ ReserveKnown(j)
  <2>1. /\ at[j] = "reserve" /\ at'[j] = "link" /\ UNCHANGED <<disk, item>>
        /\ Current(j) \in Specs
    BY <1>15, GoesEffect DEF ReserveNew, ReserveKnown, local
  <2>2. /\ at[j] \in Submitting /\ More(j) /\ Current(j) # Idea
        /\ notes[Run][Key("submission", j)] = Current(j)
    BY <1>1, <2>1 DEF ItemInv, Submitting
  <2>3. notes'[Run][Key("submission", j)] = Current(j)
    BY <1>12, <2>2 DEF StoreGrows
  <2>4. PICK s \in Specs : s = Current(j)
    BY <2>1
  <2>5. Trialled(s)'
    <3>1. CASE ReserveNew(j)
      BY <2>4, <3>1, ReserveEffect DEF ReserveNew
    <3>2. CASE ReserveKnown(j)
      BY <2>4, <3>2 DEF ReserveKnown, StoreGrows, Trialled
    <3>3. QED
      BY <1>15, <3>1, <3>2
  <2>6. Trialled(Current(j))'
    BY <2>1, <2>4, <2>5 DEF Trialled, Current
  <2>7. QED
    BY <1>11, <2>1, <2>2, <2>3, <2>6
<1>16. CASE Link(j)
  <2>1. at[j] \in Submitting /\ NextItem(j) /\ Note(Key("reserved", j), Current(j))
    BY <1>16 DEF Link, Submitting
  <2>2. /\ More(j) /\ Trialled(Current(j))
        /\ notes[Run][Key("submission", j)] = Current(j)
    BY <1>1, <1>16 DEF Link, ItemInv
  <2>3. PICK s \in Specs : s = Current(j)
    BY <2>2 DEF Trialled
  <2>4. PICK k \in 1..3 : k = item[j]
    BY DEF TypeOK
  <2>5. /\ s \in Notes /\ s # None
        /\ Key("submission", j) \in EventKeys /\ Key("reserved", j) \in EventKeys
    BY <1>12, <2>1, <2>2, <2>3
  <2>6. Trialled(s)'
    BY <2>2, <2>3 DEF StoreGrows
  <2>7. notes'[Run][Key("submission", j)] = s
    BY <2>2, <2>3, <2>5 DEF StoreGrows
  <2>8. notes'[Run][Key("reserved", j)] = s
    BY <2>1, <2>3, <2>5, NoteEffect
  <2>9. disk'[j].proposal[k] = s
    BY <2>1, <2>3, <2>4 DEF NextItem, Current
  <2>10. Accounted(j, k)'
    BY <2>6, <2>7, <2>8, <2>9, <2>4 DEF Accounted, Key, Trialled
  <2>11. QED
    BY <1>10, <2>1, <2>2, <2>10, <2>4
<1>17. CASE SubmitStep(j)
  BY <1>3, <1>5, <1>13, <1>14, <1>15, <1>16, <1>17, GoesEffect
  DEF SubmitStep, RunClosed, RejectFormula, NoBudget, AllSubmitted
<1>18. CASE CliStep(j)
  BY <1>4, <1>5, <1>8, <1>18
  DEF CliStep, CreatePackage, Invoke, Responds, CliFails, CopyResponse, Interrupted,
      Submitting, local
<1>19. CASE FileStep(j)
  <2>1. CASE WriteSpec(j) \/ FindsSpec(j)
    <3>1. /\ at[j] \notin Submitting \cup {"result", "write result"} /\ UNCHANGED item
          /\ Goes(j, "plan") \/ Goes(j, "result")
      BY <2>1 DEF WriteSpec, FindsSpec, AfterSpec, Submitting, local
    <3>2. CASE Goes(j, "plan")
      BY <1>4, <3>1, <3>2 DEF Submitting
    <3>3. CASE Goes(j, "result")
      BY <1>3, <3>3, GoesEffect
    <3>4. QED
      BY <3>1, <3>2, <3>3
  <2>2. CASE WriteResult(j) \/ FindsResult(j)
    BY <1>6, <2>2 DEF WriteResult, FindsResult
  <2>3. CASE CreateResult(j)
    BY <1>3, <2>3, GoesEffect DEF CreateResult
  <2>4. CASE FindsTorn(j) \/ PlanClosed(j) \/ MemoryTorn(j)
    BY <1>5, <2>4 DEF FindsTorn, PlanClosed, MemoryTorn
  <2>5. CASE CreateSpec(j) \/ Plan(j) \/ CreateInput(j) \/ WriteInput(j) \/ FindsInput(j)
             \/ CreateProposal(j)
    <3>1. /\ at[j] \notin Submitting \cup {"result", "write result"} /\ UNCHANGED item
          /\ \E step \in {"write spec", "input", "write input", "proposal", "write proposal"} :
                 Goes(j, step)
      BY <2>5
      DEF CreateSpec, Plan, CreateInput, WriteInput, FindsInput, CreateProposal, Submitting, local
    <3>2. QED
      BY <1>4, <3>1 DEF Submitting
  <2>6. QED
    BY <1>7, <1>19, <2>1, <2>2, <2>3, <2>4, <2>5 DEF FileStep
<1>20. CASE Start(j) \/ Killed(j) \/ Unreported(j)
  BY <1>4, <1>6, <1>20 DEF Start, Killed, Unreported, Submitting, local
<1>21. QED
  BY <1>17, <1>18, <1>19, <1>20 DEF JobStep

\* Who adds a trial, and who adds a link note.
LEMMA NewTrial ==
    ASSUME IInv, [Next]_vars, NEW s \in Specs, ~Trialled(s), Trialled(s)'
    PROVE  s \in Foreign \/ \E j \in Jobs : ReserveNew(j) /\ Current(j) = s
<1> USE DEF IInv
<1>1. ASSUME NEW j \in Jobs, JobStep(j) PROVE ReserveNew(j) /\ Current(j) = s
  <2>1. CASE UNCHANGED store
    BY <2>1 DEF Trialled, store
  <2>2. CASE Submit(j) \/ RejectFormula(j) \/ Link(j)
    <3>1. disk[j].proposal \in Responses /\ More(j)
      BY <2>2 DEF Submit, RejectFormula, Link, JobsInv, JobInv, ItemInv, Submitting
    <3>2. /\ Current(j) \in Notes /\ Invalid \in Notes
          /\ \A kind \in {"submission", "rejected", "reserved"} : Key(kind, j) \in EventKeys
      BY <3>1, CurrentType DEF Notes
    <3>3. index' = index
      BY <2>2, <3>2, NoteEffect DEF Submit, RejectFormula, Link
    <3>4. QED
      BY <3>3 DEF Trialled
  <2>3. ASSUME ReserveNew(j), Current(j) # s PROVE FALSE
    BY <2>3, ReserveEffect DEF ReserveNew
  <2>4. QED
    BY <1>1, <2>1, <2>2, <2>3, Touches
<1>2. ASSUME NEW u \in Foreign, OthersReserve(u) PROVE s = u
  BY <1>2, ReserveEffect, OtherAssumption DEF OthersReserve
<1>3. CASE RunExpires \/ UNCHANGED vars
  BY <1>3 DEF RunExpires, vars, store, Trialled
<1>4. QED
  BY <1>1, <1>2, <1>3 DEF Next, JobStep

LEMMA NewLink ==
    ASSUME IInv, [Next]_vars, NEW p \in Jobs, NEW i \in 1..2,
           notes'[Run][<<"reserved", p, i>>] # notes[Run][<<"reserved", p, i>>]
    PROVE  Link(p) /\ item[p] = i /\ notes'[Run][<<"reserved", p, i>>] = Current(p)
<1> USE DEF IInv
<1> DEFINE key == <<"reserved", p, i>>
<1>1. key \in EventKeys
  BY KeysAssumption
<1>2. ASSUME NEW j \in Jobs, JobStep(j)
      PROVE  Link(j) /\ Key("reserved", j) = key /\ notes'[Run][key] = Current(j)
  <2>1. CASE UNCHANGED store
    BY <2>1 DEF store
  <2>2. CASE ReserveNew(j)
    BY <2>2, ReserveEffect DEF ReserveNew
  <2>3. CASE Submit(j) \/ RejectFormula(j) \/ Link(j)
    <3>1. disk[j].proposal \in Responses /\ More(j)
      BY <2>3 DEF Submit, RejectFormula, Link, JobsInv, JobInv, ItemInv, Submitting
    <3>2. /\ Current(j) \in Notes /\ Invalid \in Notes
          /\ \A kind \in {"submission", "rejected", "reserved"} : Key(kind, j) \in EventKeys
      BY <3>1, CurrentType DEF Notes
    <3>3. \A l \in EventKeys, c \in Notes :
             Note(l, c) /\ l # key => notes'[Run][key] = notes[Run][key]
      BY <1>1, NoteEffect
    <3>4. ASSUME NEW kind \in {"submission", "rejected"} PROVE Key(kind, j) # key
      BY DEF Key
    <3>5. CASE Submit(j) \/ RejectFormula(j)
      BY <3>2, <3>3, <3>4, <3>5 DEF Submit, RejectFormula
    <3>6. CASE Link(j)
      <4>1. Note(Key("reserved", j), Current(j))
        BY <3>6 DEF Link
      <4>2. Key("reserved", j) = key
        BY <3>2, <3>3, <4>1
      <4>3. notes'[Run][Key("reserved", j)] = Current(j)
        BY <3>2, <4>1, NoteEffect
      <4>4. QED
        BY <3>6, <4>2, <4>3
    <3>7. QED
      BY <2>3, <3>5, <3>6
  <2>4. QED
    BY <1>2, <2>1, <2>2, <2>3, Touches
<1>3. ASSUME NEW j \in Jobs, Key("reserved", j) = key PROVE j = p /\ item[p] = i
  BY <1>3 DEF Key
<1>4. CASE \E u \in Foreign : OthersReserve(u)
  BY <1>4, ReserveEffect, OtherAssumption DEF OthersReserve
<1>5. CASE RunExpires \/ UNCHANGED vars
  BY <1>5 DEF RunExpires, vars, store
<1>6. QED
  BY <1>2, <1>3, <1>4, <1>5 DEF Next, JobStep

LEMMA TraceableStep ==
    ASSUME IInv, StoreGrows, [Next]_vars
    PROVE  TrialsTraceable' /\ LinksInv'
<1> USE DEF IInv
<1>1. ASSUME NEW s \in Specs \ Foreign, Trialled(s)'
      PROVE  \E j \in Jobs, i \in 1..2 : notes'[Run][<<"submission", j, i>>] = s
  <2>1. CASE Trialled(s)
    <3>1. PICK j \in Jobs, i \in 1..2 : notes[Run][<<"submission", j, i>>] = s
      BY <2>1 DEF TrialsTraceable, Trialled
    <3>2. <<"submission", j, i>> \in EventKeys /\ s # None
      BY KeysAssumption, OtherAssumption
    <3>3. QED
      BY <3>1, <3>2 DEF StoreGrows
  <2>2. CASE ~Trialled(s)
    <3>1. PICK j \in Jobs : ReserveNew(j) /\ Current(j) = s
      BY <1>1, <2>2, NewTrial
    <3>2. /\ disk[j].proposal \in Responses /\ More(j)
          /\ notes[Run][Key("submission", j)] = s
      BY <3>1 DEF ReserveNew, JobsInv, JobInv, ItemInv, Submitting
    <3>3. item[j] \in 1..2 /\ Key("submission", j) \in EventKeys /\ s # None
      BY <3>2, CurrentType, OtherAssumption
    <3>4. notes'[Run][Key("submission", j)] = s
      BY <3>2, <3>3 DEF StoreGrows
    <3>5. QED
      BY <3>3, <3>4 DEF Key
  <2>3. QED
    BY <2>1, <2>2
<1>2. ASSUME NEW j \in Jobs, NEW i \in 1..2, NEW s, s = notes'[Run][<<"reserved", j, i>>], s # None
      PROVE  Trialled(s)' /\ notes'[Run][<<"submission", j, i>>] = s
  <2>1. <<"submission", j, i>> \in EventKeys
    BY KeysAssumption
  <2>2. CASE s = notes[Run][<<"reserved", j, i>>]
    <3>1. Trialled(s) /\ notes[Run][<<"submission", j, i>>] = s
      BY <1>2, <2>2 DEF TrialsTraceable, LinksInv, Trialled
    <3>2. QED
      BY <1>2, <2>1, <3>1 DEF Trialled, StoreGrows
  <2>3. CASE s # notes[Run][<<"reserved", j, i>>]
    <3>1. Link(j) /\ item[j] = i /\ s = Current(j)
      BY <1>2, <2>3, NewLink
    <3>2. Trialled(s) /\ notes[Run][<<"submission", j, i>>] = s
      BY <3>1 DEF Link, JobsInv, JobInv, ItemInv, Key
    <3>3. QED
      BY <1>2, <2>1, <3>2 DEF Trialled, StoreGrows
  <2>4. QED
    BY <2>2, <2>3
<1>3. \A s \in Specs \ Foreign : index'[<<Run, s>>] > 0 =>
         \E j \in Jobs, i \in 1..2 : notes'[Run][<<"submission", j, i>>] = s
  BY <1>1 DEF Trialled
<1>4. \A j \in Jobs, i \in 1..2 : LET s == notes'[Run][<<"reserved", j, i>>] IN
         s # None => /\ s \in Specs /\ index'[<<Run, s>>] > 0
                     /\ notes'[Run][<<"submission", j, i>>] = s
  BY <1>2 DEF Trialled
<1>5. QED
  BY <1>3, <1>4 DEF TrialsTraceable, LinksInv

-----------------------------------------------------------------------------
LEMMA InvStep == IInv /\ [Next]_vars => IInv'
<1> SUFFICES ASSUME IInv, [Next]_vars PROVE IInv'
  OBVIOUS
<1>1. TypeOK' /\ StoreOK' /\ StoreGrows
  BY TypeStep, StoreStep
<1>2. TrialsTraceable' /\ LinksInv'
  BY <1>1, TraceableStep
<1>3. ASSUME NEW p \in Jobs PROVE JobInv(p)'
  <2>1. ASSUME NEW j \in Jobs, JobStep(j) PROVE JobInv(p)'
    <3>1. CASE p = j
      BY <1>1, <2>1, <3>1, CliKept, FileKept, ItemKept, PublishKept DEF JobInv
    <3>2. CASE p # j
      BY <1>1, <2>1, <3>2, OthersUntouched, UntouchedKept DEF IInv
    <3>3. QED
      BY <3>1, <3>2
  <2>2. CASE (\E s \in Foreign : OthersReserve(s)) \/ RunExpires \/ UNCHANGED vars
    <3>1. Untouched(p)
      BY <2>2 DEF OthersReserve, RunExpires, vars, local, Untouched
    <3>2. QED
      BY <1>1, <3>1, UntouchedKept
  <2>3. QED
    BY <2>1, <2>2 DEF Next, JobStep
<1>4. QED
  BY <1>1, <1>2, <1>3 DEF IInv, JobsInv

LEMMA InitInv == Init => IInv
<1> SUFFICES ASSUME Init PROVE IInv
  OBVIOUS
<1> USE OtherAssumption
<1>1. TypeOK
  <2>1. NoFiles \in Contents
    BY DEF NoFiles, Contents
  <2>2. QED
    BY <2>1 DEF Init, TypeOK, Steps, Files
<1>2. StoreOK
  BY DEF Init, StoreOK, Store!Trials, Notes
<1>3. ASSUME NEW j \in Jobs PROVE JobInv(j)
  <2>1. disk[j] = NoFiles /\ at[j] = "down" /\ answer[j] = None /\ item[j] = 1 /\ invoked[j] = 0
    BY DEF Init
  <2>2. QED
    BY <2>1 DEF NoFiles, JobInv, CliInv, FileInv, ItemInv, PublishInv, Publishing, Submitting
<1>4. /\ \A s \in Specs : index[<<Run, s>>] = 0
      /\ \A k \in EventKeys : notes[Run][k] = None
  BY DEF Init, Store!Trials
<1>5. \A j \in Jobs, i \in 1..2 : notes[Run][<<"reserved", j, i>>] = None
  BY <1>4, KeysAssumption
<1>6. TrialsTraceable /\ LinksInv
  BY <1>4, <1>5 DEF TrialsTraceable, LinksInv
<1>7. QED
  BY <1>1, <1>2, <1>3, <1>6 DEF IInv, JobsInv

\* Jobs, files, notes and trials keep the inductive invariant, whatever attempts die of
\* (execute, CliSubagentWorker.run, submit_formula).
THEOREM InvHolds == Spec => []IInv
  BY InitInv, InvStep, PTL DEF Spec

\* A job's CLI is invoked at most once, whatever its attempts die of.
THEOREM InvokedOnce == Spec => []OneInvocation
<1>1. IInv => OneInvocation
  BY DEF IInv, JobsInv, JobInv, CliInv, OneInvocation
<1>2. QED
  BY <1>1, InvHolds, PTL

\* A published result is the response of that invocation, and each of its formulas
\* has its trial and its two notes.
THEOREM ResultSafe == Spec => []ResultComplete
<1>1. IInv => ResultComplete
  <2> SUFFICES ASSUME IInv, NEW j \in Jobs, disk[j].result \notin {None, Torn}
               PROVE  /\ disk[j].result = disk[j].scratch
                      /\ \A i \in 1..Len(disk[j].result) : disk[j].result[i] # Idea =>
                           LET s == disk[j].result[i] IN
                           /\ index[<<Run, s>>] > 0
                           /\ notes[Run][<<"submission", j, i>>] = s
                           /\ notes[Run][<<"reserved", j, i>>] = s
    BY DEF ResultComplete
  <2>1. FileInv(j) /\ PublishInv(j)
    BY DEF IInv, JobsInv, JobInv
  <2>2. disk[j].result = disk[j].proposal /\ disk[j].proposal \in Responses
    BY <2>1 DEF FileInv, PublishInv, Publishing
  <2>3. disk[j].proposal = disk[j].scratch
    BY <2>1, <2>2, OtherAssumption DEF FileInv
  <2>4. \A i \in 1..Len(disk[j].proposal) : Accounted(j, i)
    BY <2>1 DEF PublishInv, Publishing
  <2>5. QED
    BY <2>2, <2>3, <2>4 DEF Accounted, Trialled
<1>2. QED
  BY <1>1, InvHolds, PTL

\* Every trial the jobs reserved has the note of its submission, and every link
\* note names a reserved trial.
THEOREM TraceSafe == Spec => []TrialsTraceable
<1>1. IInv => TrialsTraceable
  BY DEF IInv
<1>2. QED
  BY <1>1, InvHolds, PTL

\* A file an attempt has written is never changed by a later one.
THEOREM FrozenSafe == Spec => FrozenStays
<1> DEFINE Stays == \A j \in Jobs : \A file \in DOMAIN NoFiles :
                        disk[j][file] \notin {None, Torn} => disk'[j][file] = disk[j][file]
<1>1. IInv /\ [Next]_vars => [Stays]_disk
  <2> SUFFICES ASSUME IInv, [Next]_vars, NEW p \in Jobs, NEW f \in FileNames,
                      disk[p][f] \notin {None, Torn}
               PROVE  disk'[p][f] = disk[p][f]
    BY DEF NoFiles, FileNames
  <2>1. CASE UNCHANGED disk
    BY <2>1
  <2>2. ASSUME NEW j \in Jobs, JobStep(j) PROVE disk'[p][f] = disk[p][f]
    <3>1. CliInv(j) /\ FileInv(j)
      BY DEF IInv, JobsInv, JobInv
    <3>2. ASSUME NEW file \in FileNames, NEW content, Fill(j, file, content),
                 disk[j][file] \in {None, Torn, content}
          PROVE  disk'[p][f] = disk[p][f]
      BY <3>2, FillEffect DEF IInv
    <3>3. CASE CreateSpec(j) \/ CreateInput(j) \/ CreatePackage(j) \/ CreateProposal(j)
               \/ CreateResult(j)
      BY <3>2, <3>3
      DEF CreateSpec, CreateInput, CreatePackage, CreateProposal, CreateResult, Create, FileNames
    <3>4. CASE WriteSpec(j) \/ WriteInput(j) \/ WriteProposal(j) \/ WriteResult(j)
      BY <3>1, <3>2, <3>4 DEF WriteSpec, WriteInput, WriteProposal, WriteResult, FileInv, FileNames
    <3>5. ASSUME NEW r \in Responses, Responds(j, r) PROVE disk'[p][f] = disk[p][f]
      BY <3>1, <3>2, <3>5 DEF Responds, CliInv, FileNames
    <3>6. CASE CopyResponse(j)
      BY <3>1, <3>2, <3>6 DEF CopyResponse, CliInv, FileNames
    <3>7. QED
      BY <2>1, <2>2, <3>3, <3>4, <3>5, <3>6, Touches
  <2>3. QED
    BY <2>1, <2>2 DEF Next, JobStep, OthersReserve, RunExpires, vars
<1>2. QED
  BY <1>1, InvHolds, PTL DEF Spec, FrozenStays

-----------------------------------------------------------------------------
(***************************************************************************)
(* The store.  Submissions of all the jobs and the other proposers'        *)
(* reservations are steps of TrialQueue, so what is proved of it there     *)
(* holds here.                                                             *)
(***************************************************************************)
LEMMA StoreSteps == IInv /\ [Next]_vars => [Store!Next]_(Store!vars)
<1> SUFFICES ASSUME IInv, [Next]_vars PROVE Store!Next \/ UNCHANGED store
  BY DEF store, Store!vars
<1>1. ASSUME NEW j \in Jobs, Submit(j) \/ RejectFormula(j) \/ ReserveNew(j) \/ Link(j)
      PROVE  Store!Next \/ UNCHANGED store
  <2>1. TypeOK /\ disk[j].proposal \in Responses /\ More(j) /\ Current(j) # Idea
    BY <1>1 DEF Submit, RejectFormula, ReserveNew, Link, IInv, JobsInv, JobInv, ItemInv, Submitting
  <2>2. /\ Current(j) \in Specs \cup {Invalid}
        /\ \A kind \in {"submission", "rejected", "reserved"} : Key(kind, j) \in EventKeys
    BY <2>1, CurrentType DEF Candidates
  <2>3. Current(j) \in Events /\ Invalid \in Events
    BY <2>2, EventsAssumption
  <2>4. ASSUME NEW k \in EventKeys, NEW e \in Events, Note(k, e)
        PROVE  Store!Next \/ UNCHANGED store
    <3>1. Store!AppendGraphEvent(Run, k, e) => Store!Next
      BY OtherAssumption DEF Store!Next
    <3>2. QED
      BY <2>4, <3>1 DEF Note
  <2>5. CASE ReserveNew(j)
    <3>1. Store!ReserveTrial(Run, Current(j)) /\ Current(j) \in Specs
      BY <2>5 DEF ReserveNew
    <3>2. QED
      BY <3>1, OtherAssumption DEF Store!Next
  <2>6. CASE Submit(j) \/ Link(j)
    BY <2>2, <2>3, <2>4, <2>6 DEF Submit, Link
  <2>7. CASE RejectFormula(j)
    BY <2>2, <2>3, <2>4, <2>7 DEF RejectFormula
  <2>8. QED
    BY <1>1, <2>5, <2>6, <2>7
<1>2. ASSUME NEW s \in Foreign, OthersReserve(s) PROVE Store!Next
  <2>1. s \in Specs
    BY OtherAssumption
  <2>2. QED
    BY <1>2, <2>1, OtherAssumption DEF OthersReserve, Store!Next
<1>3. CASE RunExpires \/ UNCHANGED vars
  BY <1>3 DEF RunExpires, vars
<1>4. QED
  BY <1>1, <1>2, <1>3, Touches DEF Next, JobStep

\* When the first job starts, the run is frozen and nothing is reserved.
LEMMA StoreStart == Init => Queue!TypeOK /\ Queue!NoTrials
<1> SUFFICES ASSUME Init PROVE Queue!TypeOK /\ Queue!NoTrials
  OBVIOUS
<1>1. Store!NoRow = Queue!NoRow /\ Store!NoRow \in Queue!Row
  BY DEF Store!NoRow, Queue!NoRow, Queue!Row, Queue!States
<1>2. Store!Trials = Queue!Trials
  BY DEF Store!Trials, Queue!Trials
<1>3. log \in [Runs -> Seq(Queue!Entry)]
  <2>1. Store!Record("run_created", None, 0, "none") \in Queue!Entry
    BY DEF Store!Record, Queue!Entry, Queue!Kinds, Queue!States
  <2>2. QED
    BY <2>1 DEF Init
<1>4. Queue!NoTrials
  BY <1>1, <1>2 DEF Init, Queue!NoTrials
<1>5. Queue!TypeOK
  BY <1>1, <1>2, <1>3 DEF Init, Queue!TypeOK
<1>6. QED
  BY <1>4, <1>5

LEMMA SameNext == Store!Next <=> Queue!Next
  BY Zenon
  DEF Store!Next, Store!Trials, Store!CreateRun, Store!ReserveTrial, Store!ClaimAny, Store!Claim,
      Store!Claimable, Store!ReclaimAny, Store!Reclaim, Store!Released, Store!AfterAttempt,
      Store!UseLease, Store!Heartbeat, Store!LiveLease, Store!Holds, Store!Complete,
      Store!CompleteFirst, Store!CompleteAgain, Store!Fail, Store!AppendGraphEvent,
      Store!SealResult, Store!Tick, Store!Earlier, Store!LogTrial, Store!LogAppend, Store!Record,
      Store!NoRow, Store!store,
      Queue!Next, Queue!Trials, Queue!CreateRun, Queue!ReserveTrial, Queue!ClaimAny, Queue!Claim,
      Queue!Claimable, Queue!ReclaimAny, Queue!Reclaim, Queue!Released, Queue!AfterAttempt,
      Queue!UseLease, Queue!Heartbeat, Queue!LiveLease, Queue!Holds, Queue!Complete,
      Queue!CompleteFirst, Queue!CompleteAgain, Queue!Fail, Queue!AppendGraphEvent,
      Queue!SealResult, Queue!Tick, Queue!Earlier, Queue!LogTrial, Queue!LogAppend, Queue!Record,
      Queue!NoRow, Queue!store

LEMMA SameProperties ==
    /\ Store!BudgetRespected <=> Queue!BudgetRespected
    /\ Store!NoTrialStranded <=> Queue!NoTrialStranded
    /\ Store!AuditReconstructsQueue <=> Queue!AuditReconstructsQueue
  BY Zenon
  DEF Store!BudgetRespected, Queue!BudgetRespected, Store!NoTrialStranded, Queue!NoTrialStranded,
      Store!AuditReconstructsQueue, Queue!AuditReconstructsQueue, Store!Reserved, Queue!Reserved,
      Store!Trials, Queue!Trials

\* submit_formula of every job and attempt, and the other proposers, use the store only
\* by its own transactions: no step of a job shows a change the store cannot make.
THEOREM JobsUseStore == Spec => [][Store!Next]_(Store!vars)
  BY InvHolds, StoreSteps, PTL DEF Spec

\* However the jobs' attempts die and race with other proposers, the run's budget holds,
\* the reservations are numbered once each, the audit log tells every row, and nothing
\* reserved or noted is taken back.
THEOREM JobsKeepStore ==
    Spec => /\ [](/\ Store!BudgetRespected /\ Store!NoTrialStranded
                  /\ Store!AuditReconstructsQueue)
            /\ Store!NothingUndone
<1>1. Spec => [][Queue!Next]_(Queue!vars)
  BY JobsUseStore, SameNext, PTL DEF Queue!vars, Store!vars
<1>2. Spec => Queue!TypeOK /\ Queue!NoTrials
  BY StoreStart DEF Spec
<1>3. Spec => /\ [](/\ Queue!BudgetRespected /\ Queue!NoTrialStranded
                    /\ Queue!AuditReconstructsQueue)
              /\ Queue!NothingUndone
  BY <1>1, <1>2, Queue!ClientsSafe, StoreAssumption, PTL
<1>4. Queue!NothingUndone => Store!NothingUndone
  BY PTL DEF Queue!NothingUndone, Store!NothingUndone, Queue!Trials, Store!Trials, Queue!Reserved,
             Store!Reserved, Queue!Terminal, Store!Terminal, Queue!vars, Store!vars
<1>5. QED
  BY <1>3, <1>4, SameProperties, PTL
=============================================================================
