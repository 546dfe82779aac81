-------------------------- MODULE FileExplorerProofs --------------------------
(***************************************************************************)
(* The explorer of FileExplorer, for any names, listings, actions and      *)
(* versions: what is on screen is the directory the user is in, and what   *)
(* an action destroys is what the user saw.                                *)
(*                                                                         *)
(* The invariant has two halves.  ListInv follows the listings: the load   *)
(* that may still be shown lists the current path.  JobInv follows the     *)
(* actions: what the last check saw still holds of the remote files, or    *)
(* the action is marked as raced.                                          *)
(***************************************************************************)
EXTENDS FileExplorer, TLAPS

Fetched == {"asked", "answered", "failed"}

LoadRecords ==
    [stage : Fetched \cup {"unused", "over"}, dir : Dirs, aborted : BOOLEAN, entries : [Names -> Nat]]

ListTypeOK ==
    /\ open \in BOOLEAN
    /\ path \in Dirs
    /\ generation \in 0..MaxLoads
    /\ entries \in [Names -> Nat]
    /\ listed \in Dirs
    /\ state \in {"none", "loading", "ready", "error"}
    /\ shown \in 0..MaxLoads
    /\ rows \in BOOLEAN
    /\ enabled \in BOOLEAN
    /\ load \in [Loads -> LoadRecords]

\* The only load whose answer may be shown lists the directory the app is in.
LatestListsPath ==
    open => /\ generation # 0
            /\ load[generation].stage \in Fetched => load[generation].dir = path

ListInv == ListTypeOK /\ LatestListsPath /\ ListingIsCurrent

Kinds == {"delete", "rename", "mkdir", "upload", "download"}
Live == {"dialog", "preparing", "leased", "checked", "applied", "refused"}

JobRecords ==
    [kind : Kinds \cup {"none"}, stage : Live \cup {"unused", "over", "done"},
     from : Files, to : Files, fingerprint : Nat, overwrite : BOOLEAN,
     aborted : BOOLEAN, raced : BOOLEAN, endedAt : Nat]

\* Only a rename has two files, and only an upload may replace its target.
WellFormed(j) ==
    /\ j \in JobRecords
    /\ j.stage \in Live => j.kind \in Kinds
    /\ j.kind # "rename" => j.from = j.to
    /\ j.overwrite => j.kind = "upload"

\* The files are as the last check of action j requires.
Stands(j, files) ==
    /\ j.kind \in {"delete", "rename", "upload", "download"} => files[j.from] = j.fingerprint
    /\ j.kind \in {"rename", "mkdir"} => files[j.to] = 0

JobTypeOK ==
    /\ job \in [Actions -> JobRecords]
    /\ \A i \in Actions : WellFormed(job[i])
    /\ remote \in [Files -> Nat]
    /\ latest \in Nat

ChecksStand ==
    \A i \in Actions : job[i].stage = "checked" /\ ~job[i].raced => Stands(job[i], remote)

\* The refresh of an action was asked for after its effect.
RefreshFollows ==
    \A i \in Actions : job[i].stage = "done" => job[i].endedAt < generation

JobInv == JobTypeOK /\ ChecksStand /\ RefreshFollows

ExplorerInv == ListInv /\ JobInv

-----------------------------------------------------------------------------
(* Listings *)

\* A step that leaves the listings alone, whatever it does to the buttons.
ListIdle ==
    /\ UNCHANGED <<open, path, generation, entries, listed, state, shown, rows, load>>
    /\ enabled' \in BOOLEAN

\* What leaves the listings alone keeps their invariant.
LEMMA IdleKeepsList == ListInv /\ ListIdle => ListInv'
BY DEF ListInv, ListIdle, ListTypeOK, LatestListsPath, ListingIsCurrent

\* No entry is known of a load that was not answered.
LEMMA NoLoadRecord == /\ NoLoad \in LoadRecords
                      /\ [NoLoad EXCEPT !.stage = "over"] \in LoadRecords
                      /\ [NoLoad EXCEPT !.stage = "over"].stage = "over"
                      /\ NoLoad.dir = Top
BY DEF NoLoad, LoadRecords, Fetched, Dirs

\* A load that is asked for lists the directory it was asked for.
LEMMA AskedRecord ==
    ASSUME NEW dir \in Dirs
    PROVE  LET l == [NoLoad EXCEPT !.stage = "asked", !.dir = dir]
           IN  l \in LoadRecords /\ l.stage = "asked" /\ l.dir = dir
BY DEF NoLoad, LoadRecords, Fetched, Dirs

\* Aborting a load changes no more than its controller.
LEMMA LoadsAbortedKeep ==
    ASSUME ListTypeOK
    PROVE  /\ LoadsAborted \in [Loads -> LoadRecords]
           /\ \A g \in Loads : /\ LoadsAborted[g].stage = load[g].stage
                              /\ LoadsAborted[g].dir = load[g].dir
<1> SUFFICES ASSUME NEW g \in Loads
             PROVE  /\ LoadsAborted[g] \in LoadRecords
                    /\ LoadsAborted[g].stage = load[g].stage
                    /\ LoadsAborted[g].dir = load[g].dir
    BY DEF LoadsAborted
<1> QED
    BY DEF LoadsAborted, ListTypeOK, LoadRecords

\* load() makes its own load the latest, of the path it sets.
LEMMA StartLoadKeepsList ==
    ASSUME ListInv, NEW dir \in Dirs, StartLoad(dir), UNCHANGED open
    PROVE  ListInv'
<1> USE ExplorerAssumption
<1> DEFINE l == [NoLoad EXCEPT !.stage = "asked", !.dir = dir]
           g == generation + 1
<1>1. l \in LoadRecords /\ l.stage = "asked" /\ l.dir = dir
    BY AskedRecord
<1>2. LoadsAborted \in [Loads -> LoadRecords]
    BY LoadsAbortedKeep DEF ListInv
<1>3. /\ generation' = g /\ g \in Loads /\ path' = dir /\ state' = "loading"
      /\ load' = [LoadsAborted EXCEPT ![g] = l]
      /\ UNCHANGED <<entries, listed, shown, rows, enabled>>
    BY DEF StartLoad, ListInv, ListTypeOK, Loads
<1> HIDE DEF l
<1>4. load' \in [Loads -> LoadRecords] /\ load'[g] = l
    BY <1>1, <1>2, <1>3
<1>5. g \in 0..MaxLoads /\ g # 0
    BY <1>3 DEF ListInv, ListTypeOK, Loads
<1>6. ListTypeOK'
    BY <1>3, <1>4, <1>5 DEF ListInv, ListTypeOK
<1> QED
    BY <1>1, <1>3, <1>4, <1>5, <1>6 DEF ListInv, LatestListsPath, ListingIsCurrent

\* A new controller starts with a load of its own.
LEMMA OpenFilesKeepsList ==
    ASSUME ListInv, OpenFiles
    PROVE  ListInv'
<1> USE ExplorerAssumption
<1> DEFINE l == [NoLoad EXCEPT !.stage = "asked"]
           g == generation + 1
<1>1. l \in LoadRecords /\ l.stage = "asked" /\ l.dir = Top
    BY DEF NoLoad, LoadRecords, Fetched, Dirs
<1>2. /\ generation' = g /\ g \in Loads /\ path' = Top /\ state' = "loading"
      /\ load' = [load EXCEPT ![g] = l] /\ open' = TRUE
      /\ shown' = 0 /\ rows' = FALSE /\ enabled' = TRUE
      /\ entries' = [n \in Names |-> 0] /\ listed' = Top
    BY DEF OpenFiles, ListInv, ListTypeOK, Loads
<1> HIDE DEF l
<1>3. load' \in [Loads -> LoadRecords] /\ load'[g] = l
    BY <1>1, <1>2 DEF ListInv, ListTypeOK
<1>4. g \in 0..MaxLoads /\ g # 0 /\ 0 \in 0..MaxLoads
    BY <1>2 DEF ListInv, ListTypeOK, Loads
<1>5. ListTypeOK'
    BY <1>2, <1>3, <1>4 DEF ListInv, ListTypeOK, Dirs
<1> QED
    BY <1>1, <1>2, <1>3, <1>4, <1>5 DEF ListInv, LatestListsPath, ListingIsCurrent

\* Without a controller nothing on screen counts.
LEMMA DisposeKeepsList ==
    ASSUME ListInv, Dispose
    PROVE  ListInv'
<1> USE ExplorerAssumption
<1>1. /\ open' = FALSE /\ load' = LoadsAborted
      /\ shown' = 0 /\ rows' = FALSE /\ enabled' = TRUE
      /\ UNCHANGED <<path, generation, entries, listed, state>>
    BY DEF Dispose
<1>2. load' \in [Loads -> LoadRecords]
    BY <1>1, LoadsAbortedKeep DEF ListInv
<1>3. 0 \in 0..MaxLoads
    BY DEF ListInv, ListTypeOK
<1>4. ListTypeOK'
    BY <1>1, <1>2, <1>3 DEF ListInv, ListTypeOK
<1> QED
    BY <1>1, <1>4 DEF ListInv, LatestListsPath, ListingIsCurrent

\* The answer of a listing keeps the directory that was asked for.
LEMMA ServeKeepsList ==
    ASSUME ListInv, JobTypeOK, NEW g \in Loads, Serve(g)
    PROVE  ListInv'
<1> DEFINE found == [n \in Names |-> remote[load[g].dir, n]]
<1>1. load[g] \in LoadRecords /\ load[g].stage = "asked"
    BY DEF Serve, ListInv, ListTypeOK
<1>2. found \in [Names -> Nat]
    <2> SUFFICES ASSUME NEW n \in Names PROVE remote[<<load[g].dir, n>>] \in Nat
        OBVIOUS
    <2>1. load[g].dir \in Dirs
        BY <1>1 DEF LoadRecords
    <2> QED
        BY <2>1 DEF JobTypeOK, Files
<1>3. PICK stage \in {"answered", "failed"}, es \in [Names -> Nat] :
        load' = [load EXCEPT ![g] = [load[g] EXCEPT !.stage = stage, !.entries = es]]
    <2> HIDE DEF found
    <2>1. CASE load' = [load EXCEPT ![g].stage = "answered", ![g].entries = found]
        <3>1. load' = [load EXCEPT ![g] = [load[g] EXCEPT !.stage = "answered", !.entries = found]]
            BY <2>1, <1>1 DEF ListInv, ListTypeOK, LoadRecords
        <3> QED
            BY <3>1, <1>2
    <2>2. CASE load' = [load EXCEPT ![g].stage = "failed"]
        <3>1. load' = [load EXCEPT ![g] = [load[g] EXCEPT !.stage = "failed", !.entries = load[g].entries]]
            BY <2>2, <1>1 DEF ListInv, ListTypeOK, LoadRecords
        <3> QED
            BY <3>1, <1>1 DEF LoadRecords
    <2> QED
        BY <2>1, <2>2 DEF Serve, found
<1> DEFINE l == [load[g] EXCEPT !.stage = stage, !.entries = es]
<1>4. l \in LoadRecords /\ l.stage = stage /\ l.dir = load[g].dir
    BY <1>1, <1>3 DEF LoadRecords, Fetched
<1>5. UNCHANGED <<open, path, generation, entries, listed, state, shown, rows, enabled>>
    BY DEF Serve, listVars
<1> HIDE DEF l
<1>6. load' = [load EXCEPT ![g] = l]
    BY <1>3 DEF l
<1>7. ListTypeOK'
    BY <1>4, <1>5, <1>6 DEF ListInv, ListTypeOK
<1>8. LatestListsPath'
    BY <1>1, <1>4, <1>5, <1>6 DEF ListInv, ListTypeOK, LatestListsPath, Fetched
<1> QED
    BY <1>5, <1>7, <1>8 DEF ListInv, ListingIsCurrent

\* Only the latest load is shown, and it lists the current path.
LEMMA ListArrivesKeepsList ==
    ASSUME ListInv, NEW g \in Loads, ListArrives(g)
    PROVE  ListInv'
<1> DEFINE l == [NoLoad EXCEPT !.stage = "over"]
<1>1. l \in LoadRecords /\ l.stage = "over"
    BY NoLoadRecord
<1> HIDE DEF l
<1>2. /\ load' = [load EXCEPT ![g] = l] /\ load[g].stage = "answered"
      /\ UNCHANGED <<open, path, generation>>
    BY DEF ListArrives, l
<1>3. load[g] \in LoadRecords /\ g \in 0..MaxLoads
    BY DEF ListInv, ListTypeOK, Loads
<1>4. LatestListsPath'
    BY <1>1, <1>2 DEF ListInv, ListTypeOK, LatestListsPath, Fetched
<1>5. CASE open /\ g = generation
    <2>1. /\ entries' = load[g].entries /\ listed' = load[g].dir
          /\ state' = "ready" /\ shown' = g /\ rows' = TRUE /\ enabled' = TRUE
        BY <1>5 DEF ListArrives
    <2>2. load[g].dir = path
        BY <1>2, <1>5 DEF ListInv, LatestListsPath, Fetched
    <2>3. ListTypeOK'
        BY <1>1, <1>2, <1>3, <2>1 DEF ListInv, ListTypeOK, LoadRecords
    <2> QED
        BY <1>2, <1>4, <1>5, <2>1, <2>2, <2>3 DEF ListInv, ListingIsCurrent
<1>6. CASE ~(open /\ g = generation)
    <2>1. UNCHANGED <<entries, listed, state, shown, rows, enabled>>
        BY <1>6 DEF ListArrives, listVars
    <2> QED
        BY <1>1, <1>2, <1>4, <2>1 DEF ListInv, ListTypeOK, ListingIsCurrent
<1> QED
    BY <1>5, <1>6

\* An error leaves no listing that counts as ready.
LEMMA ListFailsKeepsList ==
    ASSUME ListInv, NEW g \in Loads, ListFails(g)
    PROVE  ListInv'
<1> DEFINE l == [NoLoad EXCEPT !.stage = "over"]
<1>1. l \in LoadRecords /\ l.stage = "over"
    BY NoLoadRecord
<1> HIDE DEF l
<1>2. /\ load' = [load EXCEPT ![g] = l] /\ UNCHANGED <<open, path, generation>>
    BY DEF ListFails, l
<1>3. g \in 0..MaxLoads
    BY DEF ListInv, ListTypeOK, Loads
<1>4. LatestListsPath'
    BY <1>1, <1>2 DEF ListInv, ListTypeOK, LatestListsPath, Fetched
<1>5. CASE load[g].aborted
    <2>1. UNCHANGED <<entries, listed, state, shown, rows, enabled>>
        BY <1>5 DEF ListFails, listVars
    <2> QED
        BY <1>1, <1>2, <1>4, <2>1 DEF ListInv, ListTypeOK, ListingIsCurrent
<1>6. CASE ~load[g].aborted
    <2>1. /\ state' = "error" /\ shown' = IF open THEN g ELSE shown
          /\ rows' = FALSE /\ enabled' = TRUE /\ UNCHANGED <<entries, listed>>
        BY <1>6 DEF ListFails
    <2> QED
        BY <1>1, <1>2, <1>3, <1>4, <2>1 DEF ListInv, ListTypeOK, ListingIsCurrent
<1> QED
    BY <1>5, <1>6

-----------------------------------------------------------------------------
(* Actions *)

\* The same action, whatever became of its controller.
Like(new, old) ==
    /\ new \in JobRecords
    /\ new.kind = old.kind /\ new.stage = old.stage
    /\ new.from = old.from /\ new.to = old.to
    /\ new.fingerprint = old.fingerprint /\ new.overwrite = old.overwrite
    /\ new.raced = old.raced /\ new.endedAt = old.endedAt

\* An action in a stage of which the invariant asks nothing.
Harmless(j) == WellFormed(j) /\ j.stage \notin {"checked", "done"}

\* Steps that change no file and check none: every action is as it was, in a
\* harmless stage, or done with a refresh asked for.
LEMMA JobsStep ==
    ASSUME JobInv, generation \in Nat, generation' \in Nat, generation <= generation',
           UNCHANGED <<remote, latest>>,
           DOMAIN job' = Actions, job' = [i \in Actions |-> job'[i]],
           \A i \in Actions :
              \/ Like(job'[i], job[i])
              \/ Harmless(job'[i])
              \/ /\ WellFormed(job'[i]) /\ job'[i].stage = "done"
                 /\ job'[i].endedAt < generation'
    PROVE  JobInv'
<1>1. \A i \in Actions : WellFormed(job'[i])
    BY DEF JobInv, JobTypeOK, Like, Harmless, WellFormed
<1>2. JobTypeOK'
    BY <1>1 DEF JobInv, JobTypeOK, WellFormed
<1>3. ChecksStand'
    BY DEF JobInv, ChecksStand, Stands, Like, Harmless
<1>4. RefreshFollows'
    <2> SUFFICES ASSUME NEW i \in Actions, job'[i].stage = "done"
                 PROVE  job'[i].endedAt < generation'
        BY DEF RefreshFollows
    <2>1. CASE Like(job'[i], job[i])
        <3>1. job[i].endedAt \in Nat /\ job[i].endedAt < generation
            BY <2>1 DEF JobInv, JobTypeOK, WellFormed, JobRecords, RefreshFollows, Like
        <3> QED
            BY <2>1, <3>1 DEF Like
    <2> QED
        BY <2>1 DEF Harmless
<1> QED
    BY <1>2, <1>3, <1>4 DEF JobInv

\* An action is like itself.
LEMMA LikeItself ==
    ASSUME JobTypeOK, NEW i \in Actions
    PROVE  Like(job[i], job[i])
BY DEF JobTypeOK, WellFormed, Like

\* The record of no action is well formed.
LEMMA NoJobRecord == WellFormed(NoJob) /\ NoJob.stage = "unused"
<1> USE ExplorerAssumption
<1>1. (CHOOSE n \in Names : TRUE) \in Names
    OBVIOUS
<1>2. <<Top, CHOOSE n \in Names : TRUE>> \in Files
    BY <1>1 DEF Files, Dirs
<1> QED
    BY <1>2 DEF NoJob, WellFormed, JobRecords, Live, Kinds

\* Nor is any that is over.
LEMMA OverHarmless == Harmless(Over) /\ Over.stage = "over"
<1>1. NoJob \in JobRecords /\ NoJob.from = NoJob.to /\ ~NoJob.overwrite
    BY NoJobRecord DEF NoJob, WellFormed
<1> QED
    BY <1>1 DEF Over, Harmless, WellFormed, JobRecords, Live

\* An action that is done keeps the number of the load before its refresh.
LEMMA EndedRecord ==
    ASSUME NEW stage \in {"over", "done"}, NEW g \in Nat
    PROVE  LET j == [NoJob EXCEPT !.stage = stage, !.endedAt = g]
           IN  WellFormed(j) /\ j.stage = stage /\ j.endedAt = g
<1>1. NoJob \in JobRecords /\ NoJob.from = NoJob.to /\ ~NoJob.overwrite
    BY NoJobRecord DEF NoJob, WellFormed
<1> QED
    BY <1>1 DEF WellFormed, JobRecords, Live

\* A new action names files that exist, and may replace its target only as an upload.
LEMMA NewJobHarmless ==
    ASSUME NEW kind \in Kinds, NEW stage \in {"dialog", "preparing"},
           NEW from \in Files, NEW to \in Files, NEW fingerprint \in Nat,
           kind # "rename" => from = to
    PROVE  Harmless(NewJob(kind, stage, from, to, fingerprint))
<1> DEFINE j == NewJob(kind, stage, from, to, fingerprint)
<1>1. PICK over \in BOOLEAN : over = (kind = "upload" /\ fingerprint # 0)
    OBVIOUS
<1>2. j = [kind |-> kind, stage |-> stage, from |-> from, to |-> to,
           fingerprint |-> fingerprint, overwrite |-> over,
           aborted |-> FALSE, raced |-> FALSE, endedAt |-> 0]
    <2>1. j = [NoJob EXCEPT !.kind = kind, !.stage = stage, !.from = from, !.to = to,
                            !.fingerprint = fingerprint, !.overwrite = over]
        BY <1>1, Zenon DEF NewJob
    <2> QED
        BY ONLY <2>1 DEF NoJob
<1> HIDE DEF j
<1>3. /\ j \in JobRecords /\ j.stage = stage /\ j.kind = kind /\ j.from = from /\ j.to = to
      /\ j.overwrite = over
    BY <1>2 DEF JobRecords, Live
<1> QED
    BY <1>1, <1>3 DEF Harmless, WellFormed, j

\* Aborting an action changes no more than its controller.
LEMMA JobsAbortedKeep ==
    ASSUME JobTypeOK
    PROVE  /\ JobsAborted = [i \in Actions |-> JobsAborted[i]]
           /\ \A i \in Actions : Like(JobsAborted[i], job[i])
<1>1. JobsAborted = [i \in Actions |-> JobsAborted[i]]
    BY DEF JobsAborted
<1>2. ASSUME NEW i \in Actions PROVE Like(JobsAborted[i], job[i])
    <2>1. job[i] \in JobRecords
        BY DEF JobTypeOK
    <2> QED
        BY <2>1 DEF JobsAborted, Like, JobRecords
<1> QED
    BY <1>1, <1>2

\* One action gets into a harmless stage, the others are as they were.
LEMMA OneHarmless ==
    ASSUME JobInv, generation \in Nat, generation' = generation, UNCHANGED <<remote, latest>>,
           NEW i \in Actions, NEW j, Harmless(j), job' = [job EXCEPT ![i] = j]
    PROVE  JobInv'
<1>1. DOMAIN job' = Actions /\ job' = [k \in Actions |-> job'[k]]
    <2>1. job = [k \in Actions |-> job[k]]
        BY DEF JobInv, JobTypeOK
    <2> QED
        BY <2>1
<1>3. generation <= generation'
    OBVIOUS
<1>2. ASSUME NEW k \in Actions PROVE Like(job'[k], job[k]) \/ Harmless(job'[k])
    <2>1. job'[k] = IF k = i THEN j ELSE job[k]
        BY DEF JobInv, JobTypeOK
    <2> QED
        BY <2>1, LikeItself DEF JobInv
<1> QED
    BY <1>1, <1>2, <1>3, JobsStep

\* The user and the answers leave the actions alone.
LEMMA JobsIdle ==
    ASSUME JobInv, generation \in Nat, generation' \in Nat, generation <= generation',
           UNCHANGED <<job, remote, latest>>
    PROVE  JobInv'
BY DEF JobInv, JobTypeOK, ChecksStand, Stands, RefreshFollows, JobRecords, WellFormed

\* A load aborts an action at most.
LEMMA StartLoadKeepsJobs ==
    ASSUME JobInv, ListInv, NEW dir, StartLoad(dir), job' = JobsAborted
    PROVE  JobInv'
<1>1. /\ generation \in Nat /\ generation' \in Nat /\ generation <= generation'
      /\ UNCHANGED <<remote, latest>>
    BY DEF StartLoad, ListInv, ListTypeOK
<1>2. /\ DOMAIN job' = Actions /\ job' = [k \in Actions |-> job'[k]]
      /\ \A k \in Actions : Like(job'[k], job[k])
    BY JobsAbortedKeep DEF JobInv, JobsAborted
<1> QED
    BY <1>1, <1>2, JobsStep

\* The refresh of an action comes after what the action did.
LEMMA EndAndRefreshKeeps ==
    ASSUME ExplorerInv, NEW i \in Actions, NEW stage \in {"over", "done"}, EndAndRefresh(i, stage)
    PROVE  ExplorerInv'
<1> DEFINE j == [NoJob EXCEPT !.stage = stage, !.endedAt = generation]
<1>1. /\ generation \in Nat /\ generation' = generation + 1
      /\ StartLoad(path) /\ UNCHANGED <<open, remote, latest>> /\ path \in Dirs
    BY DEF EndAndRefresh, StartLoad, ExplorerInv, ListInv, ListTypeOK
<1>2. WellFormed(j) /\ j.stage = stage /\ j.endedAt = generation
    BY <1>1, EndedRecord
<1> HIDE DEF j
<1>3. job' = [JobsAborted EXCEPT ![i] = j]
    BY DEF EndAndRefresh, j
<1>4. /\ JobsAborted = [k \in Actions |-> JobsAborted[k]]
      /\ \A k \in Actions : Like(JobsAborted[k], job[k])
    BY JobsAbortedKeep DEF ExplorerInv, JobInv
<1>5. DOMAIN JobsAborted = Actions
    BY DEF JobsAborted
<1>6. DOMAIN job' = Actions /\ job' = [k \in Actions |-> job'[k]]
    BY <1>3, <1>5
<1>7. ASSUME NEW k \in Actions
      PROVE  \/ Like(job'[k], job[k])
             \/ Harmless(job'[k])
             \/ /\ WellFormed(job'[k]) /\ job'[k].stage = "done"
                /\ job'[k].endedAt < generation'
    <2>1. job'[k] = IF k = i THEN j ELSE JobsAborted[k]
        BY <1>3, <1>5
    <2> QED
        BY <1>1, <1>2, <1>4, <2>1 DEF Harmless
<1>8. JobInv'
    BY <1>1, <1>6, <1>7, JobsStep DEF ExplorerInv
<1>9. ListInv'
    BY <1>1, StartLoadKeepsList DEF ExplorerInv
<1> QED
    BY <1>8, <1>9 DEF ExplorerInv

\* A new action of the user.
LEMMA ActKeeps ==
    ASSUME ExplorerInv, NEW i \in Actions, NEW new, Harmless(new), NEW controller,
           Act(i, new, controller)
    PROVE  ExplorerInv'
<1>1. ListIdle /\ job' = [job EXCEPT ![i] = new] /\ UNCHANGED <<remote, latest>>
    BY DEF Act, ListIdle
<1>2. generation \in Nat /\ generation' = generation
    BY <1>1 DEF ListIdle, ExplorerInv, ListInv, ListTypeOK
<1>3. JobInv'
    BY <1>1, <1>2, OneHarmless DEF ExplorerInv
<1> QED
    BY <1>1, <1>3, IdleKeepsList DEF ExplorerInv

\* What the user can name is a file.
LEMMA NamesFiles ==
    ASSUME ListTypeOK, NEW n \in Names
    PROVE  <<listed, n>> \in Files /\ <<path, n>> \in Files /\ entries[n] \in Nat
BY DEF ListTypeOK, Files

LEMMA UserActs ==
    ASSUME ExplorerInv, NEW i \in Actions, NEW n \in Names,
           \/ CreateFolder(i, n) \/ Delete(i, n) \/ Upload(i, n) \/ Download(i, n)
           \/ \E m \in Names : Rename(i, n, m)
    PROVE  ExplorerInv'
<1>1. <<listed, n>> \in Files /\ <<path, n>> \in Files /\ entries[n] \in Nat
    BY NamesFiles DEF ExplorerInv, ListInv
<1> DEFINE seen == <<listed, n>>
           typed == <<path, n>>
           fp == entries[n]
<1>2. CASE CreateFolder(i, n)
    <2> DEFINE j == NewJob("mkdir", "dialog", typed, typed, 0)
    <2>1. Harmless(j)
        BY <1>1, NewJobHarmless DEF Kinds
    <2>2. Act(i, j, abort)
        BY <1>2 DEF CreateFolder
    <2> HIDE DEF j
    <2> QED
        BY <2>1, <2>2, ActKeeps
<1>3. CASE Delete(i, n)
    <2> DEFINE j == NewJob("delete", "dialog", seen, seen, fp)
    <2>1. Harmless(j)
        BY <1>1, NewJobHarmless DEF Kinds
    <2>2. Act(i, j, abort)
        BY <1>3 DEF Delete
    <2> HIDE DEF j
    <2> QED
        BY <2>1, <2>2, ActKeeps
<1>4. CASE Upload(i, n)
    <2> DEFINE stage == IF entries[n] = 0 THEN "preparing" ELSE "dialog"
               j == NewJob("upload", stage, typed, typed, fp)
               controller == <<"action", i>>
    <2>1. stage \in {"dialog", "preparing"}
        OBVIOUS
    <2>2. Act(i, j, controller)
        BY <1>4 DEF Upload
    <2> HIDE DEF stage
    <2>3. Harmless(j)
        BY <1>1, <2>1, NewJobHarmless DEF Kinds
    <2> HIDE DEF j, controller
    <2> QED
        BY <2>2, <2>3, ActKeeps
<1>5. CASE Download(i, n)
    <2> DEFINE j == NewJob("download", "preparing", seen, seen, fp)
               controller == <<"action", i>>
    <2>1. Harmless(j)
        BY <1>1, NewJobHarmless DEF Kinds
    <2>2. Act(i, j, controller)
        BY <1>5 DEF Download
    <2> HIDE DEF j, controller
    <2> QED
        BY <2>1, <2>2, ActKeeps
<1>6. ASSUME NEW m \in Names, Rename(i, n, m) PROVE ExplorerInv'
    <2> DEFINE target == <<path, m>>
               j == NewJob("rename", "dialog", seen, target, fp)
    <2>1. target \in Files
        BY NamesFiles DEF ExplorerInv, ListInv
    <2>2. Act(i, j, abort)
        BY <1>6 DEF Rename
    <2> HIDE DEF target
    <2>3. Harmless(j)
        BY <1>1, <2>1, NewJobHarmless DEF Kinds
    <2> HIDE DEF j
    <2> QED
        BY <2>2, <2>3, ActKeeps
<1> QED
    BY <1>2, <1>3, <1>4, <1>5, <1>6

-----------------------------------------------------------------------------
(* At the server *)

\* An action moves on to a stage that the invariant says nothing of.
LEMMA StageHarmless ==
    ASSUME NEW j, WellFormed(j), j.stage \in Live, NEW stage \in Live \ {"checked"}
    PROVE  Harmless([j EXCEPT !.stage = stage])
BY DEF WellFormed, JobRecords, Harmless, Live

LEMMA StageKeeps ==
    ASSUME ExplorerInv, NEW i \in Actions, job[i].stage \in Live, NEW stage \in Live \ {"checked"},
           job' = [job EXCEPT ![i].stage = stage], ListIdle, UNCHANGED <<remote, latest>>
    PROVE  ExplorerInv'
<1> DEFINE j == [job[i] EXCEPT !.stage = stage]
<1>1. Harmless(j)
    BY StageHarmless DEF ExplorerInv, JobInv, JobTypeOK
<1>2. job' = [job EXCEPT ![i] = j]
    OBVIOUS
<1>3. generation \in Nat /\ generation' = generation
    BY DEF ListIdle, ExplorerInv, ListInv, ListTypeOK
<1> HIDE DEF j
<1>4. JobInv'
    BY <1>1, <1>2, <1>3, OneHarmless DEF ExplorerInv
<1> QED
    BY <1>4, IdleKeepsList DEF ExplorerInv

\* A lease is for a version of the file.
LEMMA PrepareKeeps ==
    ASSUME ExplorerInv, NEW i \in Actions, Prepare(i)
    PROVE  ExplorerInv'
<1> DEFINE stage == IF AsConfirmed(i) THEN "leased" ELSE "refused"
           fp == IF job[i].kind = "upload" THEN remote[job[i].to] ELSE job[i].fingerprint
           j == [job[i] EXCEPT !.stage = stage, !.fingerprint = fp]
<1>1. stage \in Live \ {"checked", "done"}
    BY DEF Live
<1>2. WellFormed(job[i]) /\ job[i] \in JobRecords /\ job[i].stage \in Live
    BY DEF Prepare, ExplorerInv, JobInv, JobTypeOK, WellFormed, Live
<1>3. fp \in Nat
    BY <1>2 DEF JobRecords, ExplorerInv, JobInv, JobTypeOK
<1>4. job' = [job EXCEPT ![i] = j]
    BY DEF Prepare
<1>8. ListIdle /\ UNCHANGED <<remote, latest>>
    BY DEF Prepare, ListIdle, listVars, ExplorerInv, ListInv, ListTypeOK
<1> HIDE DEF stage, fp
<1>5. Harmless(j)
    BY <1>1, <1>2, <1>3 DEF WellFormed, JobRecords, Harmless, Live
<1>6. generation \in Nat /\ generation' = generation
    BY <1>8 DEF ListIdle, ExplorerInv, ListInv, ListTypeOK
<1> HIDE DEF j
<1>7. JobInv'
    BY <1>4, <1>5, <1>6, <1>8, OneHarmless DEF ExplorerInv
<1> QED
    BY <1>7, <1>8, IdleKeepsList DEF ExplorerInv

\* What the last check saw stands.
LEMMA CheckKeeps ==
    ASSUME ExplorerInv, NEW i \in Actions, Check(i)
    PROVE  ExplorerInv'
<1> DEFINE ok == IF job[i].kind = "upload" THEN remote[job[i].to] = job[i].fingerprint
                 ELSE AsConfirmed(i)
<1>1. ListIdle /\ UNCHANGED <<remote, latest>> /\ job[i].stage = "leased"
    BY DEF Check, Step, ListIdle, listVars, ExplorerInv, ListInv, ListTypeOK
<1>2. CASE ~ok
    <2>1. job' = [job EXCEPT ![i].stage = "refused"]
        BY <1>2 DEF Check, Step
    <2> QED
        BY <1>1, <2>1, StageKeeps DEF Live
<1>3. CASE ok
    <2> DEFINE j == [job[i] EXCEPT !.stage = "checked"]
    <2>1. job' = [job EXCEPT ![i] = j]
        BY <1>3 DEF Check, Step
    <2>2. WellFormed(job[i]) /\ job[i] \in JobRecords /\ job[i].kind \in Kinds
        BY <1>1 DEF ExplorerInv, JobInv, JobTypeOK, WellFormed, Live
    <2>3. Stands(job[i], remote)
        <3>1. CASE job[i].kind = "upload"
            BY <1>3, <2>2, <3>1 DEF Stands, WellFormed
        <3>2. CASE job[i].kind \in {"delete", "download"}
            BY <1>3, <3>2 DEF Stands, AsConfirmed
        <3>3. CASE job[i].kind = "mkdir"
            BY <1>3, <3>3 DEF Stands, AsConfirmed
        <3>4. CASE job[i].kind = "rename"
            BY <1>3, <3>4 DEF Stands, AsConfirmed
        <3> QED
            BY <2>2, <3>1, <3>2, <3>3, <3>4 DEF Kinds
    <2>4. WellFormed(j) /\ j.stage = "checked"
        BY <2>2 DEF WellFormed, JobRecords, Live
    <2>5. j.kind = job[i].kind /\ j.from = job[i].from /\ j.to = job[i].to
          /\ j.fingerprint = job[i].fingerprint
        BY <2>2 DEF JobRecords
    <2> HIDE DEF j
    <2>6. Stands(j, remote')
        BY <1>1, <2>3, <2>5 DEF Stands
    <2>7. job \in [Actions -> JobRecords] /\ generation' = generation
        BY <1>1 DEF ExplorerInv, JobInv, JobTypeOK, ListIdle
    <2>8. \A k \in Actions : job'[k] = IF k = i THEN j ELSE job[k]
        BY <2>1, <2>7
    <2>9. JobTypeOK'
        BY <1>1, <2>1, <2>4, <2>7, <2>8 DEF ExplorerInv, JobInv, JobTypeOK, WellFormed
    <2>10. ChecksStand'
        BY <1>1, <2>1, <2>6, <2>8 DEF ExplorerInv, JobInv, ChecksStand, Stands
    <2>11. RefreshFollows'
        BY <2>4, <2>7, <2>8 DEF ExplorerInv, JobInv, RefreshFollows
    <2> QED
        BY <1>1, <2>9, <2>10, <2>11, IdleKeepsList DEF ExplorerInv, JobInv
<1> QED
    BY <1>2, <1>3

\* A change after the last check of action j touches one of its files.
Touched(j, changed) == j.stage = "checked" /\ {j.from, j.to} \cap changed # {}

\* A change is noticed by every checked action on a file it touches.
LEMMA RacedRecord ==
    ASSUME NEW jobs \in [Actions -> JobRecords], NEW changed, NEW i \in Actions
    PROVE  LET new == Raced(jobs, changed)[i]
           IN  /\ new \in JobRecords
               /\ new.kind = jobs[i].kind /\ new.stage = jobs[i].stage
               /\ new.from = jobs[i].from /\ new.to = jobs[i].to
               /\ new.fingerprint = jobs[i].fingerprint /\ new.overwrite = jobs[i].overwrite
               /\ new.endedAt = jobs[i].endedAt
               /\ new.raced = (jobs[i].raced \/ Touched(jobs[i], changed))
<1> DEFINE new == Raced(jobs, changed)[i]
<1>1. jobs[i] \in JobRecords
    OBVIOUS
<1>2. new = [jobs[i] EXCEPT !.raced = jobs[i].raced \/ Touched(jobs[i], changed)]
    BY Zenon DEF Raced, Touched
<1>3. PICK raced \in BOOLEAN : raced = (jobs[i].raced \/ Touched(jobs[i], changed))
    OBVIOUS
<1>4. new = [jobs[i] EXCEPT !.raced = raced]
    BY ONLY <1>2, <1>3, Zenon
<1> HIDE DEF new
<1>5. /\ new \in JobRecords /\ new.raced = raced
      /\ new.kind = jobs[i].kind /\ new.stage = jobs[i].stage
      /\ new.from = jobs[i].from /\ new.to = jobs[i].to
      /\ new.fingerprint = jobs[i].fingerprint /\ new.overwrite = jobs[i].overwrite
      /\ new.endedAt = jobs[i].endedAt
    BY <1>1, <1>4 DEF JobRecords
<1>6. new.raced = (jobs[i].raced \/ Touched(jobs[i], changed))
    BY ONLY <1>3, <1>5, Zenon
<1> QED
    BY <1>5, <1>6 DEF new

\* Whoever changes files, a checked action whose files changed is raced.
LEMMA ChangeKeeps ==
    ASSUME ExplorerInv, ListIdle, NEW changed, NEW jobs \in [Actions -> JobRecords],
           \A k \in Actions : jobs[k] = job[k] \/ Harmless(jobs[k]),
           job' = Raced(jobs, changed), remote' \in [Files -> Nat], latest' \in Nat,
           \A f \in Files : f \notin changed => remote'[f] = remote[f]
    PROVE  ExplorerInv'
<1>1. job' = [k \in Actions |-> job'[k]] /\ generation' = generation
    BY DEF Raced, ListIdle
<1>2. \A k \in Actions : WellFormed(jobs[k])
    BY DEF ExplorerInv, JobInv, JobTypeOK, Harmless
<1>3. \A k \in Actions : WellFormed(job'[k])
    BY <1>2, RacedRecord DEF WellFormed
<1>4. JobTypeOK'
    BY <1>1, <1>3 DEF JobTypeOK, WellFormed
<1>5. ChecksStand'
    <2> SUFFICES ASSUME NEW k \in Actions, job'[k].stage = "checked", ~job'[k].raced
                 PROVE  Stands(job'[k], remote')
        BY DEF ChecksStand
    <2>1. /\ jobs[k] \in JobRecords /\ jobs[k].stage = "checked"
          /\ ~jobs[k].raced /\ ~Touched(jobs[k], changed)
        BY RacedRecord
    <2>2. jobs[k] = job[k]
        BY <2>1 DEF Harmless
    <2>3. Stands(jobs[k], remote)
        BY <2>1, <2>2 DEF ExplorerInv, JobInv, ChecksStand
    <2>4. /\ jobs[k].from \in Files /\ jobs[k].from \notin changed
          /\ jobs[k].to \in Files /\ jobs[k].to \notin changed
        BY <2>1 DEF JobRecords, Touched
    <2>5. remote'[jobs[k].from] = remote[jobs[k].from] /\ remote'[jobs[k].to] = remote[jobs[k].to]
        BY <2>4
    <2>6. /\ job'[k].kind = jobs[k].kind /\ job'[k].fingerprint = jobs[k].fingerprint
          /\ job'[k].from = jobs[k].from /\ job'[k].to = jobs[k].to
        BY RacedRecord
    <2> QED
        BY ONLY <2>3, <2>5, <2>6 DEF Stands
<1>6. RefreshFollows'
    <2> SUFFICES ASSUME NEW k \in Actions, job'[k].stage = "done"
                 PROVE  job'[k].endedAt < generation'
        BY DEF RefreshFollows
    <2>1. jobs[k].stage = "done" /\ job'[k].endedAt = jobs[k].endedAt
        BY RacedRecord
    <2> QED
        BY <1>1, <2>1 DEF Harmless, ExplorerInv, JobInv, RefreshFollows
<1> QED
    BY <1>4, <1>5, <1>6, IdleKeepsList DEF ExplorerInv, JobInv

\* The effect of a checked action on the files it names.
LEMMA EffectKeeps ==
    ASSUME ExplorerInv, NEW i \in Actions, job[i].stage = "checked",
           NEW files \in [Files -> Nat], NEW changed, NEW fresh \in Nat,
           \A f \in Files : f \notin changed => files[f] = remote[f],
           Effect(i, files, changed, fresh)
    PROVE  ExplorerInv'
<1> DEFINE j == [job[i] EXCEPT !.stage = "applied"]
           jobs == [job EXCEPT ![i] = j]
<1>1. Harmless(j)
    BY StageHarmless DEF ExplorerInv, JobInv, JobTypeOK, Live
<1>2. job' = Raced(jobs, changed)
    BY DEF Effect
<1> HIDE DEF j
<1>3. job \in [Actions -> JobRecords]
    BY DEF ExplorerInv, JobInv, JobTypeOK
<1>4. jobs \in [Actions -> JobRecords]
    BY <1>1, <1>3 DEF Harmless, WellFormed
<1>5. \A k \in Actions : jobs[k] = job[k] \/ Harmless(jobs[k])
    BY <1>1, <1>3
<1>6. ListIdle /\ remote' = files /\ latest' = fresh
    BY DEF Effect, ListIdle, listVars, ExplorerInv, ListInv, ListTypeOK
<1> HIDE DEF jobs
<1> QED
    BY <1>2, <1>4, <1>5, <1>6, ChangeKeeps

LEMMA ApplyKeeps ==
    ASSUME ExplorerInv, NEW i \in Actions, Apply(i)
    PROVE  ExplorerInv'
<1> DEFINE from == job[i].from
           to == job[i].to
<1>1. /\ job[i].stage = "checked" /\ job[i].kind \in Kinds
      /\ from \in Files /\ to \in Files /\ remote \in [Files -> Nat] /\ latest \in Nat
    BY DEF Apply, ExplorerInv, JobInv, JobTypeOK, WellFormed, JobRecords, Live
<1>2. CASE job[i].kind = "delete"
    <2> DEFINE files == [remote EXCEPT ![from] = 0]
               changed == {from}
    <2>1. Effect(i, files, changed, latest)
        BY <1>2 DEF Apply
    <2>2. files \in [Files -> Nat] /\ \A f \in Files : f \notin changed => files[f] = remote[f]
        BY <1>1
    <2> HIDE DEF files, changed
    <2> QED
        BY <1>1, <2>1, <2>2, EffectKeeps
<1>3. CASE job[i].kind = "rename"
    <2> DEFINE files == [remote EXCEPT ![to] = remote[from], ![from] = 0]
               changed == {from, to}
    <2>1. Effect(i, files, changed, latest)
        BY <1>3 DEF Apply
    <2>2. files \in [Files -> Nat] /\ \A f \in Files : f \notin changed => files[f] = remote[f]
        BY <1>1
    <2> HIDE DEF files, changed
    <2> QED
        BY <1>1, <2>1, <2>2, EffectKeeps
<1>4. CASE job[i].kind \in {"mkdir", "upload"}
    <2> DEFINE files == [remote EXCEPT ![to] = latest + 1]
               changed == {to}
               fresh == latest + 1
    <2>1. Effect(i, files, changed, fresh)
        BY <1>4 DEF Apply
    <2>2. /\ files \in [Files -> Nat] /\ \A f \in Files : f \notin changed => files[f] = remote[f]
          /\ fresh \in Nat
        BY <1>1
    <2> HIDE DEF files, changed, fresh
    <2> QED
        BY <1>1, <2>1, <2>2, EffectKeeps
<1>5. CASE job[i].kind = "download"
    <2>1. Step(i, TRUE, "applied")
        BY <1>5 DEF Apply
    <2>2. job' = [job EXCEPT ![i].stage = "applied"] /\ UNCHANGED <<remote, latest>>
        BY <2>1 DEF Step
    <2>3. ListIdle
        BY <2>1 DEF Step, ListIdle, listVars, ExplorerInv, ListInv, ListTypeOK
    <2> QED
        BY <1>1, <2>2, <2>3, StageKeeps DEF Live
<1> QED
    BY <1>1, <1>2, <1>3, <1>4, <1>5 DEF Kinds

LEMMA OthersKeep ==
    ASSUME ExplorerInv, NEW f \in Files, OthersChange(f)
    PROVE  ExplorerInv'
<1> DEFINE changed == {f}
<1>1. job \in [Actions -> JobRecords] /\ remote \in [Files -> Nat] /\ latest \in Nat
    BY DEF ExplorerInv, JobInv, JobTypeOK
<1>2. PICK v \in {0, latest + 1} : remote' = [remote EXCEPT ![f] = v]
    BY Zenon DEF OthersChange
<1>3. remote' \in [Files -> Nat] /\ \A g \in Files : g \notin changed => remote'[g] = remote[g]
    BY <1>1, <1>2
<1>4. job' = Raced(job, changed)
    BY Zenon DEF OthersChange
<1>5. latest' \in Nat
    <2>1. latest' = latest + 1
        BY Zenon DEF OthersChange
    <2> QED
        BY <1>1, <2>1
<1>6. ListIdle
    BY DEF OthersChange, ListIdle, listVars, ExplorerInv, ListInv, ListTypeOK
<1> HIDE DEF changed
<1> QED
    BY <1>1, <1>3, <1>4, <1>5, <1>6, ChangeKeeps

-----------------------------------------------------------------------------
(* The invariant *)

\* An action ends without a refresh, and the app may or may not be waiting for it.
LEMMA OverKeeps ==
    ASSUME ExplorerInv, NEW i \in Actions, job' = [job EXCEPT ![i] = Over],
           IF Waiting(i) THEN Release ELSE UNCHANGED <<action, listVars>>,
           UNCHANGED <<open, path, generation, load, remote, latest>>
    PROVE  ExplorerInv'
<1>1. ListIdle
    BY DEF Release, ListIdle, listVars, ExplorerInv, ListInv, ListTypeOK
<1>2. generation \in Nat
    BY DEF ExplorerInv, ListInv, ListTypeOK
<1>3. JobInv'
    BY <1>2, OverHarmless, OneHarmless DEF ExplorerInv
<1> QED
    BY <1>1, <1>3, IdleKeepsList DEF ExplorerInv

LEMMA DisposeKeepsJobs ==
    ASSUME ExplorerInv, Dispose
    PROVE  JobInv'
<1>1. /\ generation \in Nat /\ generation' = generation /\ generation <= generation'
      /\ UNCHANGED <<remote, latest>>
    BY DEF Dispose, ExplorerInv, ListInv, ListTypeOK
<1>2. job' = [i \in Actions |-> IF job[i].stage = "dialog" THEN Over ELSE JobsAborted[i]]
    BY DEF Dispose
<1>3. ASSUME NEW k \in Actions PROVE Like(job'[k], job[k]) \/ Harmless(job'[k])
    <2>1. job'[k] \in {Over, JobsAborted[k]}
        BY <1>2
    <2> QED
        BY <2>1, OverHarmless, JobsAbortedKeep DEF ExplorerInv, JobInv
<1>4. DOMAIN job' = Actions /\ job' = [k \in Actions |-> job'[k]]
    BY <1>2
<1> QED
    BY <1>1, <1>3, <1>4, JobsStep DEF ExplorerInv

LEMMA InitInv == Init => ExplorerInv
<1> SUFFICES ASSUME Init PROVE ExplorerInv
    OBVIOUS
<1> USE ExplorerAssumption
<1>1. /\ MaxLoads \in Nat \ {0} /\ Top \in Dirs
      /\ open = FALSE /\ path = Top /\ generation = 0
      /\ entries = [n \in Names |-> 0] /\ listed = Top
      /\ state = "none" /\ shown = 0 /\ rows = FALSE /\ enabled = TRUE
      /\ load = [g \in Loads |-> NoLoad] /\ NoLoad \in LoadRecords
    BY NoLoadRecord DEF Init, Dirs
<1>2. ListTypeOK
    <2>1. 0 \in 0..MaxLoads /\ [n \in Names |-> 0] \in [Names -> Nat]
        BY <1>1
    <2>2. [g \in Loads |-> NoLoad] \in [Loads -> LoadRecords]
        BY <1>1
    <2> QED
        BY <1>1, <2>1, <2>2 DEF ListTypeOK
<1>3. ListInv
    BY <1>1, <1>2 DEF ListInv, LatestListsPath, ListingIsCurrent
<1>4. job = [i \in Actions |-> NoJob] /\ latest = 1 /\ remote \in [Files -> Nat]
    BY DEF Init
<1>5. \A i \in Actions : job[i] = NoJob
    BY <1>4
<1>6. JobInv
    BY <1>4, <1>5, NoJobRecord DEF JobInv, JobTypeOK, ChecksStand, RefreshFollows, WellFormed
<1> QED
    BY <1>3, <1>6 DEF ExplorerInv

\* A listing step, and nothing happens to the actions.
LEMMA ListStep ==
    ASSUME ExplorerInv, ListInv', UNCHANGED <<generation, job, remote, latest>>
    PROVE  ExplorerInv'
<1>1. generation \in Nat
    BY DEF ExplorerInv, ListInv, ListTypeOK
<1> QED
    BY <1>1, JobsIdle DEF ExplorerInv

\* A step that changes neither the listings nor the actions.
LEMMA ButtonStep ==
    ASSUME ExplorerInv, Release, UNCHANGED <<open, path, generation, load, job, remote, latest>>
    PROVE  ExplorerInv'
<1>1. ListIdle
    BY DEF Release, ListIdle
<1> QED
    BY <1>1, IdleKeepsList, ListStep DEF ExplorerInv

\* A listing that the user asks for.
LEMMA AskedStep ==
    ASSUME ExplorerInv, NEW dir \in Dirs, StartLoad(dir), job' = JobsAborted, UNCHANGED open
    PROVE  ExplorerInv'
BY StartLoadKeepsList, StartLoadKeepsJobs DEF ExplorerInv

LEMMA NextInv == ExplorerInv /\ [Next]_vars => ExplorerInv'
<1> SUFFICES ASSUME ExplorerInv, [Next]_vars PROVE ExplorerInv'
    OBVIOUS
<1>1. ListTypeOK /\ JobTypeOK
    BY DEF ExplorerInv, ListInv, JobInv
<1>2. path \in Dirs /\ Top \in Dirs /\ Sub \in Dirs
    BY <1>1 DEF ListTypeOK, Dirs
<1>3. CASE Refresh
    BY <1>2, <1>3, AskedStep DEF Refresh
<1>4. CASE OpenFolder
    BY <1>2, <1>4, AskedStep DEF OpenFolder
<1>5. CASE GoUp
    BY <1>2, <1>5, AskedStep DEF GoUp
<1>6. CASE OpenFiles
    <2>1. generation \in Nat /\ generation' \in Nat /\ generation <= generation'
        BY <1>1, <1>6 DEF OpenFiles, ListTypeOK
    <2>2. JobInv'
        BY <1>6, <2>1, JobsIdle DEF OpenFiles, ExplorerInv
    <2> QED
        BY <1>6, <2>2, OpenFilesKeepsList DEF ExplorerInv
<1>7. CASE Dispose
    BY <1>7, DisposeKeepsList, DisposeKeepsJobs DEF ExplorerInv
<1>8. ASSUME NEW i \in Actions, NEW n \in Names,
             \/ CreateFolder(i, n) \/ Delete(i, n) \/ Upload(i, n) \/ Download(i, n)
             \/ \E m \in Names : Rename(i, n, m)
      PROVE  ExplorerInv'
    BY <1>8, UserActs
<1>9. ASSUME NEW i \in Actions, Confirm(i) PROVE ExplorerInv'
    <2>1. /\ job' = [job EXCEPT ![i].stage = "preparing"] /\ job[i].stage = "dialog"
          /\ UNCHANGED <<remote, latest>>
        BY <1>9 DEF Confirm
    <2>2. ListIdle
        BY <1>1, <1>9 DEF Confirm, ListIdle, listVars, ListTypeOK
    <2> QED
        BY <2>1, <2>2, StageKeeps DEF Live
<1>10. ASSUME NEW i \in Actions, Cancel(i) PROVE ExplorerInv'
    BY <1>10, EndAndRefreshKeeps DEF Cancel
<1>11. ASSUME NEW g \in Loads, ListArrives(g) PROVE ExplorerInv'
    BY <1>11, ListArrivesKeepsList, ListStep DEF ListArrives, ExplorerInv
<1>12. ASSUME NEW g \in Loads, ListFails(g) PROVE ExplorerInv'
    BY <1>12, ListFailsKeepsList, ListStep DEF ListFails, ExplorerInv
<1>13. ASSUME NEW i \in Actions, Succeeds(i) PROVE ExplorerInv'
    <2>1. CASE Waiting(i) /\ job[i].kind # "download"
        BY <1>13, <2>1, EndAndRefreshKeeps DEF Succeeds
    <2>2. CASE ~(Waiting(i) /\ job[i].kind # "download")
        BY <1>13, <2>2, OverKeeps DEF Succeeds
    <2> QED
        BY <2>1, <2>2
<1>14. ASSUME NEW i \in Actions, Fails(i) PROVE ExplorerInv'
    BY <1>14, OverKeeps DEF Fails
<1>15. ASSUME NEW i \in Actions, GivesUp(i) PROVE ExplorerInv'
    BY <1>15, ButtonStep DEF GivesUp
<1>16. CASE Refreshed
    BY <1>16, ButtonStep DEF Refreshed
<1>17. ASSUME NEW g \in Loads, Serve(g) PROVE ExplorerInv'
    BY <1>1, <1>17, ServeKeepsList, ListStep DEF Serve, ExplorerInv
<1>18. ASSUME NEW i \in Actions, Prepare(i) PROVE ExplorerInv'
    BY <1>18, PrepareKeeps
<1>19. ASSUME NEW i \in Actions, Check(i) PROVE ExplorerInv'
    BY <1>19, CheckKeeps
<1>20. ASSUME NEW i \in Actions, Refuse(i) PROVE ExplorerInv'
    <2>1. /\ job' = [job EXCEPT ![i].stage = "refused"] /\ job[i].stage \in Live
          /\ UNCHANGED <<remote, latest>>
        BY <1>20 DEF Refuse, Step, Live
    <2>2. ListIdle
        BY <1>1, <1>20 DEF Refuse, Step, ListIdle, listVars, ListTypeOK
    <2> QED
        BY <2>1, <2>2, StageKeeps DEF Live
<1>21. ASSUME NEW i \in Actions, Apply(i) PROVE ExplorerInv'
    BY <1>21, ApplyKeeps
<1>22. ASSUME NEW f \in Files, OthersChange(f) PROVE ExplorerInv'
    BY <1>22, OthersKeep
<1>23. CASE UNCHANGED vars
    <2>1. ListIdle /\ UNCHANGED <<generation, job, remote, latest>>
        BY <1>1, <1>23 DEF vars, listVars, ListIdle, ListTypeOK
    <2> QED
        BY <2>1, IdleKeepsList, ListStep DEF ExplorerInv
<1> QED
    BY <1>3, <1>4, <1>5, <1>6, <1>7, <1>8, <1>9, <1>10, <1>11, <1>12, <1>13, <1>14,
       <1>15, <1>16, <1>17, <1>18, <1>19, <1>20, <1>21, <1>22, <1>23
       DEF Next, User, App, Server

-----------------------------------------------------------------------------
(* Theorems *)

\* Every reachable state of the explorer satisfies the invariant.
THEOREM ExplorerInvariant == Spec => []ExplorerInv
BY InitInv, NextInv, PTL DEF Spec

\* The listing that counts as ready answers the latest load, of the current
\* path, for any number of loads and actions that overtake each other.
THEOREM ListingCurrent == Spec => []ListingIsCurrent
<1>1. ExplorerInv => ListingIsCurrent
    BY DEF ExplorerInv, ListInv
<1> QED
    BY <1>1, ExplorerInvariant, PTL

\* A ready listing was asked for after every action that is reported as done.
THEOREM DoneRefreshed == Spec => []DoneIsRefreshed
<1>1. ExplorerInv => DoneIsRefreshed
    <2> SUFFICES ASSUME ExplorerInv, NEW i \in Actions, open, job[i].stage = "done", state = "ready"
                 PROVE  shown > job[i].endedAt
        BY DEF DoneIsRefreshed
    <2>1. shown = generation /\ generation \in Nat
        BY DEF ExplorerInv, ListInv, ListingIsCurrent, ListTypeOK
    <2>2. job[i].endedAt \in Nat /\ job[i].endedAt < generation
        BY DEF ExplorerInv, JobInv, JobTypeOK, JobRecords, RefreshFollows
    <2> QED
        BY <2>1, <2>2
<1> QED
    BY <1>1, ExplorerInvariant, PTL

\* Only its own effect takes a checked action to "applied".
LEMMA OnlyApplyApplies ==
    ASSUME ExplorerInv, [Next]_vars, NEW i \in Actions,
           job[i].stage = "checked", job'[i].stage = "applied"
    PROVE  Apply(i)
<1>1. job \in [Actions -> JobRecords]
    BY DEF ExplorerInv, JobInv, JobTypeOK
<1>2. job' # job
    OBVIOUS
<1>3. JobsAborted[i].stage = "checked" /\ DOMAIN JobsAborted = Actions
    BY JobsAbortedKeep DEF ExplorerInv, JobInv, Like, JobsAborted
<1>4. job' # JobsAborted
    BY <1>3
<1>5. ASSUME NEW k \in Actions, NEW j, k # i PROVE job' # [job EXCEPT ![k] = j]
    BY <1>1, <1>5
<1>6. ASSUME NEW k \in Actions, NEW j, k # i PROVE job' # [JobsAborted EXCEPT ![k] = j]
    BY <1>3, <1>6
<1>7. ASSUME NEW k \in Actions, NEW new, NEW controller PROVE ~Act(k, new, controller)
    BY <1>5 DEF Act
<1>8. ASSUME NEW k \in Actions, NEW stage, job[k].stage # "checked" PROVE ~EndAndRefresh(k, stage)
    BY <1>6, <1>8 DEF EndAndRefresh
<1>9. ~Refresh /\ ~OpenFolder /\ ~GoUp
    BY <1>4 DEF Refresh, OpenFolder, GoUp
<1>10. ~OpenFiles /\ ~Refreshed /\ ~UNCHANGED vars
    BY <1>2 DEF OpenFiles, Refreshed, vars
<1>11. ~Dispose
    BY <1>3 DEF Dispose
<1>12. ASSUME NEW k \in Actions, NEW n \in Names
       PROVE  ~(\/ CreateFolder(k, n) \/ Delete(k, n) \/ Upload(k, n) \/ Download(k, n)
                \/ \E m \in Names : Rename(k, n, m))
    BY <1>7 DEF CreateFolder, Delete, Upload, Download, Rename
<1>13. ASSUME NEW g \in Loads PROVE ~(ListArrives(g) \/ ListFails(g) \/ Serve(g))
    BY <1>2 DEF ListArrives, ListFails, Serve
<1>14. ASSUME NEW k \in Actions
       PROVE  ~(Confirm(k) \/ Cancel(k) \/ Succeeds(k) \/ Fails(k) \/ GivesUp(k))
    <2>1. ~Confirm(k)
        BY <1>5 DEF Confirm
    <2>2. ~Cancel(k)
        BY <1>8 DEF Cancel
    <2>3. ~Succeeds(k)
        BY <1>5, <1>8 DEF Succeeds
    <2>4. ~Fails(k) /\ ~GivesUp(k)
        BY <1>2, <1>5 DEF Fails, GivesUp
    <2> QED
        BY <2>1, <2>2, <2>3, <2>4
<1>15. ASSUME NEW k \in Actions PROVE ~(Prepare(k) \/ Check(k) \/ Refuse(k))
    <2>1. ~Prepare(k)
        BY <1>5 DEF Prepare
    <2>2. ~Check(k)
        BY <1>5 DEF Check, Step
    <2>3. Refuse(k) => job' = [job EXCEPT ![k].stage = "refused"]
        BY DEF Refuse, Step
    <2>4. job' # [job EXCEPT ![k].stage = "refused"]
        <3>1. CASE k = i
            <4>1. SUFFICES ASSUME job' = [job EXCEPT ![i] = [job[i] EXCEPT !.stage = "refused"]]
                           PROVE  FALSE
                BY <3>1
            <4>2. job[i] \in JobRecords
                BY <1>1
            <4>3. job'[i] = [job[i] EXCEPT !.stage = "refused"]
                BY <1>1, <4>1
            <4> QED
                BY <4>2, <4>3 DEF JobRecords
        <3>2. CASE k # i
            BY <1>1, <3>2
        <3> QED
            BY <3>1, <3>2
    <2> QED
        BY <2>1, <2>2, <2>3, <2>4
<1>16. ASSUME NEW jobs \in [Actions -> JobRecords], NEW changed, jobs[i] = job[i]
       PROVE  job' # Raced(jobs, changed)
    BY <1>16, RacedRecord
<1>17. ASSUME NEW k \in Actions, Apply(k), k # i PROVE FALSE
    <2> DEFINE jobs == [job EXCEPT ![k] = [job[k] EXCEPT !.stage = "applied"]]
    <2>1. Harmless([job[k] EXCEPT !.stage = "applied"])
        BY <1>17, StageHarmless DEF Apply, ExplorerInv, JobInv, JobTypeOK, Live
    <2>2. jobs \in [Actions -> JobRecords] /\ jobs[i] = job[i]
        BY <1>1, <1>17, <2>1 DEF Harmless, WellFormed
    <2>3. ASSUME NEW files, NEW changed, NEW fresh PROVE ~Effect(k, files, changed, fresh)
        <3>1. job' # Raced(jobs, changed)
            BY <2>2, <1>16
        <3> QED
            BY <3>1 DEF Effect
    <2>4. ~Step(k, TRUE, "applied")
        BY <1>5, <1>17 DEF Step
    <2>5. job[k].kind \in Kinds
        BY <1>17 DEF Apply, ExplorerInv, JobInv, JobTypeOK, WellFormed, Live
    <2> QED
        BY <1>17, <2>3, <2>4, <2>5 DEF Apply, Kinds
<1>18. ASSUME NEW f \in Files PROVE ~OthersChange(f)
    <2> DEFINE changed == {f}
    <2>1. job' # Raced(job, changed)
        BY <1>1, <1>16
    <2> QED
        BY <2>1, Zenon DEF OthersChange
<1> QED
    BY <1>9, <1>10, <1>11, <1>12, <1>13, <1>14, <1>15, <1>17, <1>18 DEF Next, User, App, Server

\* What an action destroys is what the user saw, or was changed by others after
\* the last check; nothing is replaced that the user was not asked about.
THEOREM OnlyConfirmed == Spec => OnlyConfirmedIsDestroyed
<1> DEFINE Safe(i) ==
        /\ \/ remote[job[i].from] \in {0, job[i].fingerprint}
           \/ job[i].raced /\ (job[i].kind = "upload" => job[i].overwrite)
        /\ job[i].kind = "rename" => remote[job[i].to] = 0
<1>1. ASSUME ExplorerInv, NEW i \in Actions, Apply(i) PROVE Safe(i)
    <2>1. /\ job[i].stage = "checked" /\ WellFormed(job[i]) /\ job[i].kind \in Kinds
          /\ job[i].raced \in BOOLEAN
        BY <1>1 DEF Apply, ExplorerInv, JobInv, JobTypeOK, WellFormed, Live, JobRecords
    <2>2. ~job[i].raced => Stands(job[i], remote)
        BY <1>1, <2>1 DEF ExplorerInv, JobInv, ChecksStand
    <2>3. CASE job[i].kind \in {"delete", "download"}
        BY <2>1, <2>2, <2>3 DEF Stands
    <2>4. CASE job[i].kind = "rename"
        BY <1>1, <2>1, <2>2, <2>4 DEF Stands, Apply
    <2>5. CASE job[i].kind \in {"mkdir", "upload"}
        <3>1. remote[job[i].to] = 0 \/ job[i].overwrite
            BY <1>1, <2>5 DEF Apply
        <3>2. job[i].from = job[i].to /\ (job[i].overwrite => job[i].kind = "upload")
            BY <2>1, <2>5 DEF WellFormed
        <3> QED
            BY <2>1, <2>2, <2>5, <3>1, <3>2 DEF Stands
    <2> QED
        BY <2>1, <2>3, <2>4, <2>5 DEF Kinds
<1>2. ExplorerInv /\ [Next]_vars =>
         \A i \in Actions : job[i].stage = "checked" /\ job'[i].stage = "applied" => Safe(i)
    BY <1>1, OnlyApplyApplies
<1>3. ExplorerInv /\ [Next]_vars =>
         [\A i \in Actions : job[i].stage = "checked" /\ job'[i].stage = "applied" => Safe(i)]_vars
    BY <1>2
<1> QED
    BY <1>3, ExplorerInvariant, PTL DEF Spec, OnlyConfirmedIsDestroyed
===============================================================================
