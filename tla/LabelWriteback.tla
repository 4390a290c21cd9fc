--------------------------- MODULE LabelWriteback ---------------------------
(***************************************************************************)
(* Folders mirrored into a Gmail mailbox as labels: the provisioning job   *)
(* (provision-folder-labels.ts) renames and creates the labels and records *)
(* a link for each folder, the write-back job (writeback-thread-label.ts)  *)
(* puts its folder's label on one thread and provisions by itself when a   *)
(* link is missing or dead.  The two jobs run in workers of their own, one *)
(* at a time each, over the same links and the same mailbox.               *)
(*                                                                         *)
(* Paths are the distinct names buildProviderPaths gives; ancestors,       *)
(* colours and folders that come or go are left out.                       *)
(***************************************************************************)
EXTENDS Integers, FiniteSets

CONSTANTS
    Folders, Threads,
    Paths,       \* label paths folders may have
    MaxLabels,   \* bound: labels created
    None,        \* no folder, no label, no path
    MaxEdits,    \* bound: renames, moves and switches of the settings
    MaxMishaps   \* bound: failures, deaths, lost adds and labels users delete

Labels == 1 .. MaxLabels

VARIABLES
    path,     \* path[f]: where the folder stands in the tree
    latest,   \* latest[t]: the folder of t's latest classification
    name,     \* name[l]: the name of the label l, None when there is no such label
    made,     \* labels made so far: Gmail gives no id twice
    carries,  \* carries[t]: the labels on t in the mailbox
    link,     \* link[f]: the TaxonomyNodeProviderLink row of f
    on,       \* loadWritebackConnection finds a connection to write with
    adding,   \* classifications that are written, their job not added yet
    jobs,     \* jobs[j]: the job under the deduplication id j
    run,      \* run[k]: the attempt worker k is in
    adrift,   \* history: threads the code knows no job will reconcile
    edits, mishaps

treeVars == <<path, latest, edits>>
mailVars == <<name, made, carries>>
vars == <<path, latest, name, made, carries, link, on, adding, jobs, run, adrift, edits, mishaps>>

Jobs(k) == IF k = "writer" THEN Threads ELSE {"provision", "relabel"}
Workers == {"writer", "provisioner"}

NoJob == [at |-> "none", left |-> 0, stalled |-> FALSE]

Idle == [at |-> "idle", job |-> None, then |-> "done", folder |-> None, desired |-> {},
         managed |-> {}, paths |-> <<>>, links |-> <<>>, todo |-> {}, seen |-> <<>>,
         astray |-> FALSE]

Exists(l) == name[l] # None
Linked(f) == link[f].label # None
Managed == {link[f].label : f \in {g \in Folders : Linked(g)}}

Init ==
    /\ path \in {p \in [Folders -> Paths] : \A f, g \in Folders : p[f] = p[g] => f = g}
    /\ latest \in [Threads -> Folders \cup {None}]
    /\ name = [l \in Labels |-> None] /\ made = 0
    /\ carries = [t \in Threads |-> {}]
    /\ link = [f \in Folders |-> [label |-> None, path |-> None]]
    /\ on = TRUE
    /\ adding = {<<t, FALSE>> : t \in {u \in Threads : latest[u] # None}}
    /\ jobs = [j \in UNION {Jobs(k) : k \in Workers} |-> NoJob]
    /\ run = [k \in Workers |-> Idle]
    /\ adrift = {}
    /\ edits = 0 /\ mishaps = 0

-----------------------------------------------------------------------------
(* The queues.  A job added by the API has one attempt: its Queue instance *)
(* has no defaultJobOptions.                                               *)

\* add with a deduplication id: nothing while a job of that id is not done.
Added(q, api) ==
    IF q.at # "none" THEN q
    ELSE [at |-> "waiting", left |-> IF api THEN 1 ELSE 3, stalled |-> FALSE]

\* The attempt is over: the job is done, or tried again while it has attempts.
Done(k) == /\ jobs' = [jobs EXCEPT ![run[k].job] = NoJob]
           /\ run' = [run EXCEPT ![k] = Idle]

Throw(k) ==
    LET j == run[k].job IN
    /\ jobs' = [jobs EXCEPT ![j] =
                  IF jobs[j].left > 1 THEN [jobs[j] EXCEPT !.at = "waiting", !.left = @ - 1]
                  ELSE NoJob]
    /\ adrift' = IF jobs[j].left = 1 THEN adrift \cup (Threads \cap {j}) ELSE adrift
    /\ run' = [run EXCEPT ![k] = Idle]

Mishap == mishaps < MaxMishaps /\ mishaps' = mishaps + 1
Edit   == edits < MaxEdits /\ edits' = edits + 1

\* A rename (PATCH of a node) adds a provisioning job, an edge move adds none.
Repath(f, p) ==
    /\ Edit
    /\ \A g \in Folders : path[g] # p
    /\ path' = [path EXCEPT ![f] = p]
    /\ \/ jobs' = [jobs EXCEPT !["provision"] = Added(@, TRUE)]
       \/ UNCHANGED jobs
    /\ UNCHANGED <<latest, mailVars, link, on, adding, run, adrift, mishaps>>

\* A thread is classified, by the sorter or by a person through the API.
Classify(t, f, api) ==
    /\ Edit
    /\ latest[t] # f
    /\ latest' = [latest EXCEPT ![t] = f]
    /\ adding' = adding \cup {<<t, api>>}
    /\ UNCHANGED <<path, mailVars, link, on, jobs, run, adrift, mishaps>>

\* The add may coalesce with a job that has read the thread already.
Adds(t, api) ==
    /\ <<t, api>> \in adding
    /\ adding' = adding \ {<<t, api>>}
    /\ jobs' = [jobs EXCEPT ![t] = Added(@, api)]
    /\ adrift' = IF jobs[t].at = "active" THEN adrift \cup {t} ELSE adrift
    /\ UNCHANGED <<treeVars, mailVars, link, on, run, mishaps>>

LosesAdd(t, api) ==
    /\ Mishap
    /\ <<t, api>> \in adding
    /\ adding' = adding \ {<<t, api>>}
    /\ adrift' = adrift \cup {t}
    /\ UNCHANGED <<treeVars, mailVars, link, on, jobs, run>>

\* Switched off, or on with a relabelling (settings, sign-in, connect).
Switch ==
    /\ Edit
    /\ on' = ~ on
    /\ jobs' = IF on THEN jobs ELSE [jobs EXCEPT !["relabel"] = Added(@, TRUE)]
    /\ UNCHANGED <<path, latest, mailVars, link, adding, run, adrift, mishaps>>

-----------------------------------------------------------------------------
(* provisionFolderLabels, run by either worker.                            *)

Provisioning(k) == run[k].at \in {"links", "renames", "creates", "records"}

\* History: a run that goes astray takes along the one it overlaps.
Goes(k, r) == [x \in Workers |->
                 IF x = k THEN r
                 ELSE [run[x] EXCEPT !.astray = @ \/ (r.astray /\ Provisioning(x))]]

\* Two runs overlap that saw the tree differently.
Clashes(k) == \E x \in Workers \ {k} :
                 Provisioning(x) /\ (run[x].paths # path \/ run[x].astray)

ReadsTree(k) ==
    /\ run[k].at = "tree"
    /\ run' = Goes(k, [run[k] EXCEPT !.at = "links", !.paths = path, !.astray = Clashes(k)])
    /\ UNCHANGED <<treeVars, mailVars, link, on, adding, jobs, adrift, mishaps>>

DriftedNever(k) == {}   \* mutant: a stored path that differs is not renamed

Drifted(k) == {f \in Folders : Linked(f) /\ link[f].path # run[k].paths[f]}

\* Links are off when a label has not the name its link has recorded, or is two folders':
\* a run that renamed labels did not live to record them all.
LinksOff == \E f \in Folders :
               /\ Linked(f) /\ Exists(link[f].label)
               /\ \/ name[link[f].label] # link[f].path
                  \/ \E g \in Folders \ {f} : link[g].label = link[f].label

ReadsLinks(k) ==
    /\ run[k].at = "links"
    /\ run' = Goes(k, [run[k] EXCEPT !.at = "renames", !.links = link, !.todo = Drifted(k),
                                     !.astray = @ \/ LinksOff])
    /\ UNCHANGED <<treeVars, mailVars, link, on, adding, jobs, adrift, mishaps>>

\* renameFolderLabel: a label that is gone and a name that is taken are tolerated.
Renames(k, f) ==
    /\ run[k].at = "renames" /\ f \in run[k].todo
    /\ LET l == run[k].links[f].label
           p == run[k].paths[f]
           taken == \E x \in Labels \ {l} : name[x] = p
       IN /\ name' = IF Exists(l) /\ ~ taken THEN [name EXCEPT ![l] = p] ELSE name
          /\ run' = Goes(k, [run[k] EXCEPT !.todo = @ \ {f},
                                           !.astray = @ \/ (Exists(l) /\ taken)])
    /\ UNCHANGED <<treeVars, made, carries, link, on, adding, jobs, adrift, mishaps>>

LabelNamed(p) == IF \E l \in Labels : name[l] = p THEN CHOOSE l \in Labels : name[l] = p
                                                  ELSE None

\* ensureFolderLabels lists the names once ...
Lists(k) ==
    /\ run[k].at = "renames" /\ run[k].todo = {}
    /\ LET seen == [f \in Folders |-> LabelNamed(run[k].paths[f])] IN
         run' = [run EXCEPT ![k].at = "creates", ![k].seen = seen, ![k].links = <<>>,
                            ![k].todo = {f \in Folders : seen[f] = None}]
    /\ UNCHANGED <<treeVars, mailVars, link, on, adding, jobs, adrift, mishaps>>

\* ... and creates what is missing; on a conflict it lists again.
Creates(k, f) ==
    /\ run[k].at = "creates" /\ f \in run[k].todo
    /\ LET p == run[k].paths[f]
           found == LabelNamed(p)
       IN /\ \/ /\ found = None /\ made < MaxLabels
                /\ made' = made + 1
                /\ name' = [name EXCEPT ![made'] = p]
             \/ found # None /\ UNCHANGED <<name, made>>
          /\ run' = [run EXCEPT ![k].todo = @ \ {f},
                                ![k].seen[f] = IF found = None THEN made' ELSE found]
    /\ UNCHANGED <<treeVars, carries, link, on, adding, jobs, adrift, mishaps>>

CreatesAll(k) ==
    /\ run[k].at = "creates" /\ run[k].todo = {}
    /\ run' = [run EXCEPT ![k].at = "records", ![k].todo = Folders]
    /\ UNCHANGED <<treeVars, mailVars, link, on, adding, jobs, adrift, mishaps>>

\* The upsert of f's link.  Its threads are left behind when the link moves off a label
\* that is still there, in a run astray or to a label deleted since the listing; so are
\* those of other folders that carry what is f's now.
Records(k, f) ==
    /\ run[k].at = "records" /\ f \in run[k].todo
    /\ link' = [link EXCEPT ![f] = [label |-> run[k].seen[f], path |-> run[k].paths[f]]]
    /\ run' = [run EXCEPT ![k].todo = @ \ {f}]
    /\ adrift' = IF run[k].seen[f] = link[f].label THEN adrift
                 ELSE adrift \cup {t \in Threads :
                         \/ /\ latest[t] = f /\ Linked(f) /\ Exists(link[f].label)
                            /\ run[k].astray \/ ~ Exists(run[k].seen[f])
                         \/ latest[t] # f /\ run[k].seen[f] \in carries[t]}
    /\ UNCHANGED <<treeVars, mailVars, on, adding, jobs, mishaps>>

\* All links are recorded: the sweep of a relabelling adds a job per thread.
Provisioned(k) ==
    /\ run[k].at = "records" /\ run[k].todo = {}
    /\ UNCHANGED <<treeVars, mailVars, link, on, adding, mishaps>>
    /\ CASE run[k].then = "done" -> Done(k) /\ UNCHANGED adrift
         [] run[k].then = "sweep" ->
              /\ jobs' = [j \in DOMAIN jobs |->
                            IF j = "relabel" THEN NoJob
                            ELSE IF j \in Threads /\ latest[j] # None THEN Added(jobs[j], FALSE)
                            ELSE jobs[j]]
              /\ run' = [run EXCEPT ![k] = Idle]
              /\ UNCHANGED adrift
         [] run[k].then = "reread" ->
              /\ run' = [run EXCEPT ![k].at = "reread", ![k].paths = <<>>, ![k].seen = <<>>]
              /\ UNCHANGED <<jobs, adrift>>
         [] run[k].then = "throw" -> Throw(k)

-----------------------------------------------------------------------------
(* The jobs.                                                               *)

Start(k, j) ==
    /\ run[k].at = "idle" /\ j \in Jobs(k) /\ jobs[j].at = "waiting"
    /\ IF on
       THEN /\ jobs' = [jobs EXCEPT ![j].at = "active"]
            /\ run' = [run EXCEPT ![k].at = IF k = "writer" THEN "thread" ELSE "tree",
                                  ![k].job = j,
                                  ![k].then = IF j = "relabel" THEN "sweep" ELSE "done"]
            /\ UNCHANGED adrift
       ELSE /\ jobs' = [jobs EXCEPT ![j] = NoJob]
            /\ adrift' = adrift \cup (Threads \cap {j})
            /\ UNCHANGED run
    /\ UNCHANGED <<treeVars, mailVars, link, on, adding, mishaps>>

Wanted(f) == IF f # None /\ Linked(f) THEN {link[f].label} ELSE {}

\* The latest classification and the links; a missing link is provisioned first.
ReadsThread ==
    LET t == run["writer"].job
        f == latest[t]
    IN /\ run["writer"].at = "thread"
       /\ run' = [run EXCEPT !["writer"] =
                    [run["writer"] EXCEPT
                       !.folder = f, !.managed = Managed, !.desired = Wanted(f),
                       !.at = IF f # None /\ ~ Linked(f) THEN "tree" ELSE "apply",
                       !.then = "reread"]]
       /\ adrift' = adrift \ {t}
       /\ UNCHANGED <<treeVars, mailVars, link, on, adding, jobs, mishaps>>

Rereads ==
    /\ run["writer"].at = "reread"
    /\ LET want == Wanted(run["writer"].folder) IN
         run' = [run EXCEPT !["writer"] =
                    [run["writer"] EXCEPT !.at = "apply", !.desired = want,
                                          !.managed = @ \cup want]]
    /\ UNCHANGED <<treeVars, mailVars, link, on, adding, jobs, adrift, mishaps>>

Heal(r) == [r EXCEPT !.at = "tree", !.then = "throw"]

Removal(r, t) == (carries[t] \cap r.managed) \ r.desired

\* applyThreadFolderLabels: only the difference is written, and a label that
\* is gone makes Gmail refuse it.
Applies ==
    LET r == run["writer"]
        add == r.desired \ carries[r.job]
    IN /\ r.at = "apply"
       /\ IF \E l \in add : ~ Exists(l)
          THEN run' = [run EXCEPT !["writer"] = Heal(r)] /\ UNCHANGED <<jobs, carries>>
          ELSE /\ carries' = [carries EXCEPT ![r.job] = (@ \ Removal(r, r.job)) \cup add]
               /\ Done("writer")
       /\ UNCHANGED <<treeVars, name, made, link, on, adding, adrift, mishaps>>

-----------------------------------------------------------------------------
(* What goes wrong around them.                                            *)

\* A call of the mailbox or of the database fails.
CallFails(k) ==
    /\ Mishap
    /\ run[k].at # "idle"
    /\ Throw(k)
    /\ UNCHANGED <<treeVars, mailVars, link, on, adding>>

\* MailAuthError: the connection is marked disconnected, the job is not tried again.
AuthFails(k) ==
    /\ Mishap
    /\ run[k].at \in {"renames", "creates", "apply"}
    /\ on' = FALSE
    /\ adrift' = adrift \cup (Threads \cap {run[k].job})
    /\ Done(k)
    /\ UNCHANGED <<treeVars, mailVars, link, adding>>

\* The worker process dies; a stalled job is run again once.
WorkerDies ==
    /\ Mishap
    /\ \E k \in Workers : run[k].at # "idle"
    /\ run' = [k \in Workers |-> Idle]
    /\ jobs' = [j \in DOMAIN jobs |->
                  IF jobs[j].at # "active" THEN jobs[j]
                  ELSE IF jobs[j].stalled THEN NoJob
                  ELSE [at |-> "waiting", left |-> jobs[j].left, stalled |-> TRUE]]
    /\ adrift' = adrift \cup {t \in Threads : jobs[t].at = "active" /\ jobs[t].stalled}
    /\ UNCHANGED <<treeVars, mailVars, link, on, adding>>

\* The user deletes the label l in Gmail.
LabelDeleted(l) ==
    /\ Mishap
    /\ Exists(l)
    /\ name' = [name EXCEPT ![l] = None]
    /\ carries' = [t \in Threads |-> carries[t] \ {l}]
    /\ adrift' = adrift \cup {t \in Threads : l \in carries[t]}
    /\ UNCHANGED <<treeVars, made, link, on, adding, jobs, run>>

Provision(k) ==
    \/ ReadsTree(k) \/ ReadsLinks(k) \/ Lists(k) \/ CreatesAll(k) \/ Provisioned(k)
    \/ \E f \in Folders : Renames(k, f) \/ Creates(k, f) \/ Records(k, f)

Work(k) == (\E j \in Jobs(k) : Start(k, j)) \/ Provision(k)

Next ==
    \/ \E f \in Folders, p \in Paths : Repath(f, p)
    \/ \E t \in Threads, api \in BOOLEAN :
          \/ \E f \in Folders \cup {None} : Classify(t, f, api)
          \/ Adds(t, api) \/ LosesAdd(t, api)
    \/ Switch
    \/ \E k \in Workers : Work(k) \/ CallFails(k) \/ AuthFails(k)
    \/ ReadsThread \/ Rereads \/ Applies
    \/ WorkerDies
    \/ \E l \in Labels : LabelDeleted(l)

Spec == Init /\ [][Next]_vars

-----------------------------------------------------------------------------
\* Labels have distinct names, a worker that is busy holds an active job of
\* its own, and a thread carries labels that exist.
LabelsTypeOK ==
    /\ path \in [Folders -> Paths]
    /\ \A l, m \in Labels : Exists(l) /\ name[l] = name[m] => l = m
    /\ \A k \in Workers : run[k].at # "idle" => run[k].job \in Jobs(k) /\ jobs[run[k].job].at = "active"
    /\ \A j \in DOMAIN jobs : jobs[j].at = "active" => \E k \in Workers : run[k].job = j
    /\ \A t \in Threads : \A l \in carries[t] : Exists(l)
    /\ edits \in 0 .. MaxEdits /\ mishaps \in 0 .. MaxMishaps

\* A thread no job is due for carries the label of its folder and no label of
\* another one.  Set apart are threads that a lost, coalesced, switched-off
\* or one-attempt job left behind, those whose label a user deleted, and those
\* whose label could not follow a rename: the name was taken, two runs
\* overlapped that saw the tree differently, or an earlier run did not live to
\* record the links it found.
LabelsFollowFolders ==
    \A t \in Threads \ adrift :
        jobs[t].at = "none" /\ (\A api \in BOOLEAN : <<t, api>> \notin adding) =>
            carries[t] \cap Managed = Wanted(latest[t])
=============================================================================
