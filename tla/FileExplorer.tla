----------------------------- MODULE FileExplorer -----------------------------
(***************************************************************************)
(* Files seen from the app: the explorer (src/app/file-explorer.ts) lists  *)
(* a directory, lets the user act on what it shows, and carries each       *)
(* action through the file API (src/app/file-api.ts), the file tools       *)
(* (src/server/create-server.ts) and FileSession (prepare, mutate,         *)
(* upload) to the remote directory, which others change as well.           *)
(*                                                                         *)
(* A file has a version; its fingerprint tells versions apart.  0 is a     *)
(* file that does not exist.  Loads and actions are numbered.              *)
(***************************************************************************)
EXTENDS Naturals, FiniteSets

CONSTANTS
    Top, Sub,     \* the directory the explorer starts in, and one below it
    Names,
    MaxLoads,     \* bound on the listings of one behaviour
    MaxActions,   \* bound on the actions
    MaxVersion    \* bound on the versions of all files

Dirs == {Top, Sub}
Files == Dirs \X Names

ASSUME ExplorerAssumption ==
    /\ Top # Sub
    /\ Names # {}
    /\ {MaxLoads, MaxActions, MaxVersion} \subseteq Nat \ {0}

VARIABLES
    open,        \* there is a controller
    path,
    generation,  \* the number of the last load
    abort,       \* whose controller the field holds
    entries,     \* the last listing that was accepted
    listed,      \* its directory
    state,       \* mount.dataset.state
    shown,       \* the load whose rows or error are on screen
    rows,        \* whether it is rows
    enabled,     \* whether the buttons of the list are
    load,        \* the listings asked for
    action,      \* the action runAction is busy with, and the load it ends with
    job,         \* the actions, from the dialog to their effect
    remote,      \* the version of each file
    latest       \* the last version there is

listVars == <<entries, listed, state, shown, rows, enabled>>
vars == <<open, path, generation, abort, listVars, load, action, job, remote, latest>>

Loads == 1..MaxLoads
Actions == 1..MaxActions

NoOne == <<"none", 0>>
NoAction == [number |-> 0, refresh |-> 0]
NoLoad == [stage |-> "unused", dir |-> Top, aborted |-> FALSE, entries |-> [n \in Names |-> 0]]
NoJob == [kind |-> "none", stage |-> "unused", from |-> <<Top, CHOOSE n \in Names : TRUE>>,
          to |-> <<Top, CHOOSE n \in Names : TRUE>>, fingerprint |-> 0, overwrite |-> FALSE,
          aborted |-> FALSE, raced |-> FALSE, endedAt |-> 0]
Over == [NoJob EXCEPT !.stage = "over"]

Init ==
    /\ open = FALSE
    /\ path = Top
    /\ generation = 0
    /\ abort = NoOne
    /\ entries = [n \in Names |-> 0] /\ listed = Top
    /\ state = "none" /\ shown = 0 /\ rows = FALSE /\ enabled = TRUE
    /\ load = [g \in Loads |-> NoLoad]
    /\ action = NoAction
    /\ job = [i \in Actions |-> NoJob]
    /\ remote = [f \in Files |-> IF f[1] = Top THEN 1 ELSE 0]
    /\ latest = 1

-----------------------------------------------------------------------------
(* Listings *)

\* this.abort?.abort(): the load or the action whose controller the field holds.
LoadsAborted == [g \in Loads |-> [load[g] EXCEPT !.aborted = @ \/ abort = <<"load", g>>]]
JobsAborted == [i \in Actions |-> [job[i] EXCEPT !.aborted = @ \/ abort = <<"action", i>>]]

\* load(dir), up to the call of the tool.
StartLoad(dir) ==
    /\ generation < MaxLoads
    /\ generation' = generation + 1
    /\ abort' = <<"load", generation + 1>>
    /\ path' = dir
    /\ state' = "loading"
    /\ load' = [LoadsAborted EXCEPT ![generation + 1] =
                  [NoLoad EXCEPT !.stage = "asked", !.dir = dir]]
    /\ UNCHANGED <<entries, listed, shown, rows, enabled, remote, latest>>

Dialog == \E i \in Actions : job[i].stage = "dialog" /\ action.number = i

\* The files tab, or Refresh: the one is never disabled.
Refresh ==
    /\ open /\ ~Dialog
    /\ StartLoad(path)
    /\ job' = JobsAborted
    /\ UNCHANGED <<open, action>>

\* A row of the listing on screen.
OpenFolder ==
    /\ open /\ ~Dialog
    /\ rows /\ enabled /\ listed = Top
    /\ StartLoad(Sub)
    /\ job' = JobsAborted
    /\ UNCHANGED <<open, action>>

GoUp ==
    /\ open /\ action = NoAction
    /\ StartLoad(Top)
    /\ job' = JobsAborted
    /\ UNCHANGED <<open, action>>

\* showFiles without a controller: a new one, in the mount of the last.
OpenFiles ==
    /\ ~open
    /\ open' = TRUE
    /\ generation < MaxLoads
    /\ generation' = generation + 1
    /\ abort' = <<"load", generation + 1>>
    /\ path' = Top
    /\ state' = "loading" /\ shown' = 0 /\ rows' = FALSE /\ enabled' = TRUE
    /\ entries' = [n \in Names |-> 0] /\ listed' = Top
    /\ load' = [load EXCEPT ![generation + 1] = [NoLoad EXCEPT !.stage = "asked"]]
    /\ UNCHANGED <<action, job, remote, latest>>

\* dispose, with the session it belongs to.  What runs goes on without it.
Dispose ==
    /\ open
    /\ open' = FALSE
    /\ load' = LoadsAborted
    /\ job' = [i \in Actions |->
                 IF job[i].stage = "dialog" THEN Over
                 ELSE JobsAborted[i]]
    /\ action' = NoAction
    /\ abort' = NoOne
    /\ shown' = 0 /\ rows' = FALSE /\ enabled' = TRUE
    /\ UNCHANGED <<path, generation, entries, listed, state, remote, latest>>

\* FileSession.list: what the directory holds at some time, or an error.
Serve(g) ==
    /\ load[g].stage = "asked"
    /\ \/ load' = [load EXCEPT ![g].stage = "answered",
                               ![g].entries = [n \in Names |-> remote[load[g].dir, n]]]
       \/ load' = [load EXCEPT ![g].stage = "failed"]
    /\ UNCHANGED <<open, path, generation, abort, listVars, action, job, remote, latest>>

\* Mutant: an answer is shown whenever it comes.
ListArrivesUnchecked(g) ==
    /\ load[g].stage = "answered"
    /\ load' = [load EXCEPT ![g] = [NoLoad EXCEPT !.stage = "over"]]
    /\ IF open
       THEN /\ entries' = load[g].entries /\ listed' = load[g].dir
            /\ state' = "ready" /\ shown' = g /\ rows' = TRUE /\ enabled' = TRUE
       ELSE UNCHANGED listVars
    /\ UNCHANGED <<open, path, generation, abort, action, job, remote, latest>>

\* The answer of the latest load is shown, one of an earlier load is not.
ListArrives(g) ==
    /\ load[g].stage = "answered"
    /\ load' = [load EXCEPT ![g] = [NoLoad EXCEPT !.stage = "over"]]
    /\ IF open /\ g = generation
       THEN /\ entries' = load[g].entries /\ listed' = load[g].dir
            /\ state' = "ready" /\ shown' = g /\ rows' = TRUE /\ enabled' = TRUE
       ELSE UNCHANGED listVars
    /\ UNCHANGED <<open, path, generation, abort, action, job, remote, latest>>

\* Mutant: the current load fails without a word.
ListFailsSilently(g) ==
    /\ load[g].stage = "failed"
    /\ load' = [load EXCEPT ![g] = [NoLoad EXCEPT !.stage = "over"]]
    /\ UNCHANGED <<open, path, generation, abort, listVars, action, job, remote, latest>>

\* An error is shown unless the controller of its load has been aborted.
ListFails(g) ==
    /\ load[g].stage = "failed"
    /\ load' = [load EXCEPT ![g] = [NoLoad EXCEPT !.stage = "over"]]
    /\ IF load[g].aborted
       THEN UNCHANGED listVars
       ELSE /\ state' = "error"
            /\ shown' = IF open THEN g ELSE shown
            /\ rows' = FALSE /\ enabled' = TRUE
            /\ UNCHANGED <<entries, listed>>
    /\ UNCHANGED <<open, path, generation, abort, action, job, remote, latest>>

-----------------------------------------------------------------------------
(* Actions in the app *)

NewJob(kind, stage, from, to, fingerprint) ==
    [NoJob EXCEPT !.kind = kind, !.stage = stage, !.from = from, !.to = to,
                  !.fingerprint = fingerprint,
                  !.overwrite = (kind = "upload" /\ fingerprint # 0)]

\* runAction, up to the first await of the operation; rows keep the directory
\* they were listed in, names that are typed go to the current path.
Act(i, new, controller) ==
    /\ open /\ action = NoAction /\ enabled
    /\ job[i].stage = "unused"
    /\ \A k \in Actions : k < i => job[k].stage # "unused"
    /\ job' = [job EXCEPT ![i] = new]
    /\ action' = [number |-> i, refresh |-> 0]
    /\ abort' = controller
    /\ enabled' = FALSE
    /\ UNCHANGED <<open, path, generation, entries, listed, state, shown, rows, load, remote, latest>>

Delete(i, n) ==
    /\ rows /\ entries[n] # 0
    /\ Act(i, NewJob("delete", "dialog", <<listed, n>>, <<listed, n>>, entries[n]), abort)

Rename(i, n, m) ==
    /\ rows /\ entries[n] # 0 /\ n # m
    /\ Act(i, NewJob("rename", "dialog", <<listed, n>>, <<path, m>>, entries[n]), abort)

\* createFolder.
CreateFolder(i, n) ==
    Act(i, NewJob("mkdir", "dialog", <<path, n>>, <<path, n>>, 0), abort)

\* The file has been picked, and a dialog asks only if the listing has a file of
\* that name.  A file picked after the explorer was disposed is left out: its
\* session is closed, and the upload fails at the tools.
Upload(i, n) ==
    Act(i, NewJob("upload", IF entries[n] = 0 THEN "preparing" ELSE "dialog",
                  <<path, n>>, <<path, n>>, entries[n]), <<"action", i>>)

\* The host has to be able to take the file.
Download(i, n) ==
    /\ rows /\ entries[n] # 0
    /\ Act(i, NewJob("download", "preparing", <<listed, n>>, <<listed, n>>, entries[n]), <<"action", i>>)

Confirm(i) ==
    /\ job[i].stage = "dialog"
    /\ job' = [job EXCEPT ![i].stage = "preparing"]
    /\ UNCHANGED <<open, path, generation, abort, listVars, load, action, remote, latest>>

\* The operation returns: runAction refreshes and waits for that.
EndAndRefresh(i, stage) ==
    /\ StartLoad(path)
    /\ action' = [number |-> i, refresh |-> generation + 1]
    /\ job' = [JobsAborted EXCEPT ![i] = [NoJob EXCEPT !.stage = stage, !.endedAt = generation]]
    /\ UNCHANGED open

Cancel(i) ==
    /\ job[i].stage = "dialog"
    /\ EndAndRefresh(i, "over")

Waiting(i) == action = [number |-> i, refresh |-> 0]

\* The buttons come back with the end of runAction.
Release ==
    /\ action' = NoAction
    /\ enabled' = TRUE
    /\ UNCHANGED <<entries, listed, state, shown, rows>>

\* Mutant: the listing is left as it is.
SucceedsUnrefreshed(i) ==
    /\ job[i].stage = "applied"
    /\ job' = [job EXCEPT ![i] = [NoJob EXCEPT !.stage = "done", !.endedAt = generation]]
    /\ IF Waiting(i) THEN Release ELSE UNCHANGED <<action, listVars>>
    /\ UNCHANGED <<open, path, generation, abort, load, remote, latest>>

\* The answer "completed".
Succeeds(i) ==
    /\ job[i].stage = "applied"
    /\ IF Waiting(i) /\ job[i].kind # "download"
       THEN EndAndRefresh(i, "done")
       ELSE /\ job' = [job EXCEPT ![i] = Over]
            /\ IF Waiting(i) THEN Release ELSE UNCHANGED <<action, listVars>>
            /\ UNCHANGED <<open, path, generation, abort, load, remote, latest>>

\* Any error: the status says so, and the listing stays.
Fails(i) ==
    /\ job[i].stage = "refused"
    /\ job' = [job EXCEPT ![i] = Over]
    /\ IF Waiting(i) THEN Release ELSE UNCHANGED <<action, listVars>>
    /\ UNCHANGED <<open, path, generation, abort, load, remote, latest>>

\* The fetch is aborted, or the tool answers outcome_unknown: the app is done
\* with the action while the helper may still carry it out.
GivesUp(i) ==
    /\ Waiting(i)
    /\ job[i].stage \in {"leased", "checked"}
    /\ job[i].aborted \/ job[i].stage = "checked"
    /\ Release
    /\ UNCHANGED <<open, path, generation, abort, load, job, remote, latest>>

\* The load that runAction ended with is over.
Refreshed ==
    /\ action.refresh # 0
    /\ load[action.refresh].stage = "over"
    /\ Release
    /\ UNCHANGED <<open, path, generation, abort, load, job, remote, latest>>

-----------------------------------------------------------------------------
(* Actions at the server *)

Step(i, ok, stage) ==
    /\ job' = [job EXCEPT ![i].stage = IF ok THEN stage ELSE "refused"]
    /\ UNCHANGED <<open, path, generation, abort, listVars, load, action, remote, latest>>

\* What prepare and, once more, the operation itself require of the files.
AsConfirmed(i) ==
    CASE job[i].kind \in {"delete", "download"} -> remote[job[i].from] = job[i].fingerprint
      [] job[i].kind = "mkdir" -> remote[job[i].to] = 0
      [] job[i].kind = "rename" -> remote[job[i].from] = job[i].fingerprint /\ remote[job[i].to] = 0
      [] job[i].kind = "upload" -> remote[job[i].to] \in {0, job[i].fingerprint}

\* prepare: a lease for what the user saw.  A target that is missing is leased
\* as missing.
Prepare(i) ==
    /\ job[i].stage = "preparing"
    /\ job' = [job EXCEPT ![i] =
                 [job[i] EXCEPT !.stage = IF AsConfirmed(i) THEN "leased" ELSE "refused",
                                !.fingerprint = IF job[i].kind = "upload" THEN remote[job[i].to]
                                                ELSE job[i].fingerprint]]
    /\ UNCHANGED <<open, path, generation, abort, listVars, load, action, remote, latest>>

\* Mutant: the lease is enough.
CheckLeaseOnly(i) ==
    /\ job[i].stage = "leased"
    /\ Step(i, TRUE, "checked")

\* mutate, upload and downloadBuffer use up the lease and look again.
Check(i) ==
    /\ job[i].stage = "leased"
    /\ Step(i, IF job[i].kind = "upload" THEN remote[job[i].to] = job[i].fingerprint
               ELSE AsConfirmed(i), "checked")

\* A deadline passes, the lease expires, the helper is lost, with nothing done
\* or with its answer only.
Refuse(i) ==
    /\ job[i].stage \in {"preparing", "leased", "checked", "applied"}
    /\ Step(i, FALSE, "refused")

\* Others who change these files between the last check and the effect.
Raced(jobs, changed) ==
    [i \in Actions |->
        [jobs[i] EXCEPT !.raced = @ \/ (jobs[i].stage = "checked" /\ {jobs[i].from, jobs[i].to} \cap changed # {})]]

Effect(i, files, changed, fresh) ==
    /\ remote' = files
    /\ latest' = fresh
    /\ job' = Raced([job EXCEPT ![i].stage = "applied"], changed)
    /\ UNCHANGED <<open, path, generation, abort, listVars, load, action>>

\* The helper's remove, rename, mkdir and upload, or the bytes of a download.  Only an
\* upload over a file that was listed replaces its target.
Apply(i) ==
    /\ job[i].stage = "checked"
    /\ LET from == job[i].from to == job[i].to IN
       CASE job[i].kind = "delete" ->
              remote[from] # 0 /\ Effect(i, [remote EXCEPT ![from] = 0], {from}, latest)
         [] job[i].kind = "rename" ->
              /\ remote[from] # 0 /\ remote[to] = 0
              /\ Effect(i, [remote EXCEPT ![to] = remote[from], ![from] = 0], {from, to}, latest)
         [] job[i].kind \in {"mkdir", "upload"} ->
              /\ remote[to] = 0 \/ job[i].overwrite
              /\ latest < MaxVersion
              /\ Effect(i, [remote EXCEPT ![to] = latest + 1], {to}, latest + 1)
         [] job[i].kind = "download" -> Step(i, TRUE, "applied")

\* Somebody else writes or removes a file.
OthersChange(f) ==
    /\ latest < MaxVersion
    /\ latest' = latest + 1
    /\ \E v \in {0, latest + 1} : v # remote[f] /\ remote' = [remote EXCEPT ![f] = v]
    /\ job' = Raced(job, {f})
    /\ UNCHANGED <<open, path, generation, abort, listVars, load, action>>

-----------------------------------------------------------------------------

User ==
    \/ Refresh \/ OpenFolder \/ GoUp
    \/ OpenFiles \/ Dispose
    \/ \E i \in Actions, n \in Names :
          \/ CreateFolder(i, n) \/ Delete(i, n) \/ Upload(i, n) \/ Download(i, n)
          \/ \E m \in Names : Rename(i, n, m)
    \/ \E i \in Actions : Confirm(i) \/ Cancel(i)

App ==
    \/ \E g \in Loads : ListArrives(g) \/ ListFails(g)
    \/ \E i \in Actions : Succeeds(i) \/ Fails(i) \/ GivesUp(i)
    \/ Refreshed

Server ==
    \/ \E g \in Loads : Serve(g)
    \/ \E i \in Actions : Prepare(i) \/ Check(i) \/ Refuse(i) \/ Apply(i)

Next == User \/ App \/ Server \/ \E f \in Files : OthersChange(f)

Spec == Init /\ [][Next]_vars

\* Tools answer, and their answers are delivered.
FairSpec ==
    Spec /\ WF_vars(\E g \in Loads : Serve(g)) /\ WF_vars(\E g \in Loads : ListArrives(g) \/ ListFails(g))

-----------------------------------------------------------------------------
(* Properties *)

\* The listing that counts as ready is the answer to the latest load, of the
\* directory whose path names typed by the user are put under, however answers,
\* errors, actions and a new controller overtake each other.
ListingIsCurrent ==
    open /\ state = "ready" => shown = generation /\ listed = path

\* What an action destroys or moves away is the version the user saw, unless
\* somebody changed the file after the server's last look at it; and even then
\* nothing is replaced that the user was not asked about.
OnlyConfirmedIsDestroyed ==
    [][\A i \in Actions :
          job[i].stage = "checked" /\ job'[i].stage = "applied" =>
             /\ \/ remote[job[i].from] \in {0, job[i].fingerprint}
                \/ job[i].raced /\ (job[i].kind = "upload" => job[i].overwrite)
             /\ job[i].kind = "rename" => remote[job[i].to] = 0]_vars

\* Once an action has been reported as done, a listing that is ready was asked
\* for after its effect: the user never acts on rows from before it.
DoneIsRefreshed ==
    \A i \in Actions :
        open /\ job[i].stage = "done" /\ state = "ready" => shown > job[i].endedAt

\* A load never stays "loading": it is shown, or its error is, whoever aborts
\* what in the meantime.
EveryLoadEnds == open /\ state = "loading" ~> ~open \/ state # "loading"
=============================================================================
