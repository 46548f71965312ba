------------------------------ MODULE Packages ------------------------------
(***************************************************************************)
(* Extension packages of a server and of one client: PackMan               *)
(* (src/core/packman.cpp), the package commands of the shell, the MD5 of   *)
(* the files (src/core/util.cpp) and the synchronisation that a refused    *)
(* login starts (docs/dev/package.rst, Fk/Logic.js).                       *)
(*                                                                         *)
(* Each host has a table of packages (packages.db), their directories,     *)
(* and in memory the list of the disabled ones.  A command goes on in      *)
(* steps, between which the host may crash and a developer may change      *)
(* files; git operations may fail.  A checkout moves HEAD first and then   *)
(* the files.  The commits of a package are numbered; the MD5 is what is   *)
(* counted in it.                                                          *)
(***************************************************************************)
EXTENDS Integers

CONSTANTS
  Packs,        \* names of packages, each with its repository
  NoPack, Server, Client,
  MaxPublished, \* bound: commits published after the first ones
  MaxServerCommands, MaxClientCommands, \* bounds: commands and edits
  MaxLogins,    \* bound: refused logins of the client
  MaxCrashes    \* bound: crashes

ASSUME PackagesConstants ==
  /\ Server # Client /\ NoPack \notin Packs
  /\ {MaxPublished, MaxServerCommands, MaxClientCommands, MaxLogins, MaxCrashes}
       \subseteq Nat

Hosts   == {Server, Client}
Commits == 1..MaxPublished + 1
None    == 0            \* head() of what is no repository
Bad     == -1           \* "XXXXXXXX"
Mixed   == -2           \* files of several commits

VARIABLES
  remote,  \* the newest commit of each repository
  row,     \* row[m][p]: p in packages.db of host m
  dir,     \* dir[m][p]: packages/p
  list,    \* PackMan.disabled_packs
  job,     \* what PackMan is doing
  served,  \* Server.md5
  odd,     \* packages with a mishap, see Mishap (history)
  count    \* how often the bounded things have happened

vars == <<remote, row, dir, list, job, served, odd, count>>

NoRow == [in |-> FALSE, hash |-> None, enabled |-> FALSE]
\* there: the directory exists; head: HEAD; branch: refs/heads/master; tree:
\* the commit the files are from; edited: files were changed by hand; cut: the
\* last forced checkout did not get as far as HEAD says (history).
NoDir == [there |-> FALSE, head |-> None, branch |-> None, tree |-> None,
          edited |-> FALSE, cut |-> FALSE]
\* Just cloned, before its files are written.
Cloned(c) == [NoDir EXCEPT !.there = TRUE, !.head = c, !.branch = c]
\* git_checkout_head, forced: wholly, and when it fails or crashes.
Forced(d) == [d EXCEPT !.tree = d.head, !.edited = FALSE, !.cut = FALSE]
Between(d) == IF d.tree = d.head THEN d.tree ELSE Mixed
Torn(d)   == {[d EXCEPT !.tree = t, !.edited = e, !.cut = t # d.head] :
                t \in {d.tree, Between(d)},
                e \in {d.edited, FALSE}}
\* raced: files of the package were changed after its status (history).
Idle  == [do |-> "nothing", at |-> "idle", pack |-> NoPack, want |-> None,
          todo |-> {}, summary |-> {}, cloned |-> "untried", ok |-> TRUE,
          raced |-> FALSE]

\* calcFileMD5: the directories that are not in the list.
Counted(m) == {<<p, dir[m][p].tree, dir[m][p].edited>> :
                 p \in {p \in Packs \ list[m] : dir[m][p].tree # None}}
\* getPackSummary
Summary(m) == {[pack |-> p, hash |-> row[m][p].hash] :
                 p \in {p \in Packs : row[m][p].in /\ row[m][p].enabled}}

\* A server that has some packages, and a client that has none yet.
Init ==
  /\ remote = [p \in Packs |-> 1]
  /\ \E here \in SUBSET Packs :
       LET there(m, p) == m = Server /\ p \in here IN
       /\ row = [m \in Hosts |-> [p \in Packs |->
            IF there(m, p) THEN [in |-> TRUE, hash |-> 1, enabled |-> TRUE]
            ELSE NoRow]]
       /\ dir = [m \in Hosts |-> [p \in Packs |->
            IF there(m, p) THEN Forced(Cloned(1)) ELSE NoDir]]
  /\ list = [m \in Hosts |-> {}]
  /\ job = [m \in Hosts |-> Idle]
  /\ served = Counted(Server)
  /\ odd = [m \in Hosts |-> {}]
  /\ count = [commands |-> [m \in Hosts |-> 0], logins |-> 0, crashes |-> 0,
              published |-> 0]

Free(m)      == job[m].at = "idle"
Is(m, at)    == job[m].at = at
Go(m, at)    == job' = [job EXCEPT ![m].at = at]
Pack(m)      == job[m].pack
Dirty(m, p)  == dir[m][p].tree # dir[m][p].head \/ dir[m][p].edited
Status(m, p) == IF ~dir[m][p].there THEN -1 ELSE IF Dirty(m, p) THEN 1 ELSE 0
Mishap(m, p) == odd' = [odd EXCEPT ![m] = @ \cup {p}]
Becomes(m, d) == dir' = [dir EXCEPT ![m][Pack(m)] = d]
\* The forced checkout of the package in hand does not get to the end.
Tears(m) == \E d \in Torn(dir[m][Pack(m)]) :
              /\ Becomes(m, d)
              /\ IF d.tree = Mixed THEN Mishap(m, Pack(m)) ELSE UNCHANGED odd

Spend(m) ==
  /\ count.commands[m] < IF m = Server THEN MaxServerCommands ELSE MaxClientCommands
  /\ count' = [count EXCEPT !.commands[m] = @ + 1]
Command(m) == Free(m) /\ Spend(m)
Start(m, do, at, p) ==
  job' = [job EXCEPT ![m] = [Idle EXCEPT !.do = do, !.at = at, !.pack = p]]

-----------------------------------------------------------------------------
(* Steps the commands share.                                                *)

\* The next package of the summary, cloned first when it has no row.
NextPack(m, j) ==
  job' \in IF j.todo = {} THEN {[job EXCEPT ![m] = [j EXCEPT !.at = "done"]]}
           ELSE {[job EXCEPT ![m] =
                    [j EXCEPT !.todo = @ \ {e}, !.pack = e.pack, !.want = e.hash,
                              !.cloned = "untried", !.raced = FALSE,
                              !.at = IF row[m][e.pack].in THEN "enable"
                                     ELSE "clone"]] : e \in j.todo}

Failed(j) == [j EXCEPT !.ok = FALSE]
\* A git operation failed: the command is over, a synchronisation goes on
\* with the next package.
GiveUp(m) ==
  IF job[m].do = "sync" THEN NextPack(m, Failed(job[m])) ELSE Go(m, "refresh")

Fails(j) == [Failed(j) EXCEPT !.at = "insert", !.cloned = "no"]
\* git_clone: an existing directory, or the network, makes it fail.
Clone(m) ==
  /\ Is(m, "clone")
  /\ \/ /\ ~dir[m][Pack(m)].there
        /\ Becomes(m, Cloned(remote[Pack(m)])) /\ Go(m, "cloneFiles")
     \/ job' = [job EXCEPT ![m] = Fails(@)] /\ UNCHANGED dir
  /\ UNCHANGED <<remote, row, list, served, odd, count>>
\* Its checkout; libgit2 removes what it could not finish.
CloneFiles(m) ==
  /\ Is(m, "cloneFiles")
  /\ \/ /\ Becomes(m, Forced(dir[m][Pack(m)]))
        /\ job' = [job EXCEPT ![m] = [@ EXCEPT !.at = "insert", !.cloned = "yes"]]
     \/ job' = [job EXCEPT ![m] = Fails(@)] /\ Becomes(m, NoDir)
  /\ UNCHANGED <<remote, row, list, served, odd, count>>

\* The row is made whether the clone worked or not.
Insert(m) ==
  /\ Is(m, "insert")
  /\ LET p == Pack(m)
         cloned == job[m].cloned = "yes"
     IN /\ row' = [row EXCEPT ![m][p] =
             IF @.in THEN @
             ELSE [in |-> TRUE, hash |-> IF cloned THEN dir[m][p].head ELSE Bad,
                   enabled |-> TRUE]]
        /\ IF cloned /\ p \notin list[m] THEN UNCHANGED odd ELSE Mishap(m, p)
  /\ IF job[m].do = "sync" THEN Go(m, "enable")
     ELSE job' = [job EXCEPT ![m] = Idle]
  /\ UNCHANGED <<remote, dir, list, served, count>>

\* git fetch, then HEAD is detached at FETCH_HEAD.
Pull(m) ==
  /\ Is(m, "pull")
  /\ \/ /\ Becomes(m, [dir[m][Pack(m)] EXCEPT !.head = remote[Pack(m)]])
        /\ Go(m, "pullFiles")
     \/ GiveUp(m) /\ UNCHANGED dir
  /\ UNCHANGED <<remote, row, list, served, odd, count>>
\* The forced checkout of that HEAD.
PullFiles(m) ==
  /\ Is(m, "pullFiles")
  /\ \/ /\ Becomes(m, Forced(dir[m][Pack(m)])) /\ UNCHANGED odd
        /\ Go(m, IF job[m].do = "sync" THEN "checkout" ELSE "record")
     \/ GiveUp(m) /\ Tears(m)
  /\ UNCHANGED <<remote, row, list, served, count>>

\* mutant: the commit of the branch is good enough
CheckoutHead(m) ==
  /\ Is(m, "checkout")
  /\ NextPack(m, job[m])
  /\ UNCHANGED <<remote, row, dir, list, served, odd, count>>
\* git checkout <hash>: HEAD is detached at it; "XXXXXXXX" is no hash.
Checkout(m) ==
  /\ Is(m, "checkout")
  /\ \/ /\ job[m].want \in 1..remote[Pack(m)]
        /\ Becomes(m, [dir[m][Pack(m)] EXCEPT !.head = job[m].want])
        /\ Go(m, "checkoutFiles")
     \/ GiveUp(m) /\ UNCHANGED dir
  /\ UNCHANGED <<remote, row, list, served, odd, count>>
\* The forced checkout of that HEAD.
CheckoutFiles(m) ==
  /\ Is(m, "checkoutFiles")
  /\ \/ /\ Becomes(m, Forced(dir[m][Pack(m)])) /\ UNCHANGED odd
        /\ NextPack(m, job[m])
     \/ GiveUp(m) /\ Tears(m)
  /\ UNCHANGED <<remote, row, list, served, count>>

\* mutant: the forced checkout comes without asking for the status
StatusSkipped(m) ==
  /\ Is(m, "status")
  /\ IF Status(m, Pack(m)) >= 0 THEN Go(m, "pull") ELSE GiveUp(m)
  /\ UNCHANGED <<remote, row, dir, list, served, odd, count>>
\* updatePack and upgradePack stop at a directory with changes.
CheckStatus(m) ==
  /\ Is(m, "status")
  /\ IF Status(m, Pack(m)) = 0 THEN Go(m, "pull") ELSE GiveUp(m)
  /\ UNCHANGED <<remote, row, dir, list, served, odd, count>>

-----------------------------------------------------------------------------
(* The commands of the shell and of the package page of the client.         *)

\* After upgrade, enable and disable the shell calls refreshMd5.
Refresh(m) ==
  /\ Is(m, "refresh")
  /\ served' = IF m = Server THEN Counted(m) ELSE served
  /\ job' = [job EXCEPT ![m] = Idle]
  /\ UNCHANGED <<remote, row, dir, list, odd, count>>

DownloadNewPack(m, p) ==
  /\ Command(m) /\ Start(m, "install", "clone", p)
  /\ UNCHANGED <<remote, row, dir, list, served, odd>>

EnablePack(m, p) ==
  /\ Command(m) /\ Start(m, "enable", "refresh", p)
  /\ row' = [row EXCEPT ![m][p].enabled = row[m][p].in]
  /\ list' = [list EXCEPT ![m] = @ \ {p}]
  /\ UNCHANGED <<remote, dir, served, odd>>

DisablePack(m, p) ==
  /\ Command(m) /\ Start(m, "disable", "refresh", p)
  /\ row' = [row EXCEPT ![m][p].enabled = FALSE]
  /\ list' = [list EXCEPT ![m] = @ \cup {p}]
  /\ IF row[m][p].in THEN UNCHANGED odd ELSE Mishap(m, p)
  /\ UNCHANGED <<remote, dir, served>>

\* upgradePack: master is looked up and checked out without moving HEAD;
\* whether that writes files depends on the version of libgit2.  It does not
\* overwrite changes.
UpgradePack(m, p) ==
  /\ Command(m)
  /\ IF dir[m][p].branch = None
     THEN Start(m, "upgrade", "refresh", p) /\ UNCHANGED <<dir, odd>>
     ELSE /\ Start(m, "upgrade", "status", p)
          /\ \/ UNCHANGED <<dir, odd>>
             \/ /\ ~Dirty(m, p) /\ dir[m][p].branch # dir[m][p].head
                /\ dir' = [dir EXCEPT ![m][p].tree = dir[m][p].branch]
                /\ Mishap(m, p)
  /\ UNCHANGED <<remote, row, list, served>>

\* mutant: the new hash is not written down
RecordNothing(m) ==
  /\ Is(m, "record") /\ Go(m, "refresh")
  /\ UNCHANGED <<remote, row, dir, list, served, odd, count>>
Record(m) ==
  /\ Is(m, "record") /\ Go(m, "refresh")
  /\ row' = [row EXCEPT ![m][Pack(m)].hash = IF row[m][Pack(m)].in
                                             THEN dir[m][Pack(m)].head ELSE @]
  /\ UNCHANGED <<remote, dir, list, served, odd, count>>

\* removePack leaves disabled_packs alone.
RemovePack(m, p) ==
  /\ row[m][p].in /\ Command(m) /\ Start(m, "remove", "rmdir", p)
  /\ row' = [row EXCEPT ![m][p] = NoRow]
  /\ UNCHANGED <<remote, dir, list, served, odd>>

RemoveDir(m) ==
  /\ Is(m, "rmdir")
  /\ dir' = [dir EXCEPT ![m][Pack(m)] = NoDir]
  /\ job' = [job EXCEPT ![m] = Idle]
  /\ UNCHANGED <<remote, row, list, served, odd, count>>

-----------------------------------------------------------------------------
(* Synchronisation.                                                         *)

\* mutant: what the server does not have stays enabled
LoadOnly ==
  /\ Free(Client) /\ count.logins < MaxLogins
  /\ Counted(Client) # served
  /\ NextPack(Client, [Idle EXCEPT !.do = "sync", !.summary = Summary(Server),
                                   !.todo = Summary(Server)])
  /\ count' = [count EXCEPT !.logins = @ + 1]
  /\ UNCHANGED <<remote, row, dir, list, served, odd>>
\* A login is refused when the MD5 differ, and the summary comes with it.
\* The client disables every row and works the summary off.
LoadSummary ==
  /\ Free(Client) /\ count.logins < MaxLogins
  /\ Counted(Client) # served
  /\ LET on(p) == row[Client][p].in IN
     /\ row' = [row EXCEPT ![Client] =
                  [p \in Packs |-> [@[p] EXCEPT !.enabled = FALSE]]]
     /\ list' = [list EXCEPT ![Client] = @ \cup {p \in Packs : on(p)}]
  /\ NextPack(Client, [Idle EXCEPT !.do = "sync", !.summary = Summary(Server),
                                   !.todo = Summary(Server)])
  /\ count' = [count EXCEPT !.logins = @ + 1]
  /\ UNCHANGED <<remote, dir, served, odd>>

\* The row gets the hash of the server and is enabled; only a HEAD that
\* differs is updated.
EnableSynced ==
  /\ Is(Client, "enable")
  /\ LET p == Pack(Client) IN
     /\ row' = [row EXCEPT ![Client][p].hash = job[Client].want,
                           ![Client][p].enabled = TRUE]
     /\ list' = [list EXCEPT ![Client] = @ \ {p}]
     /\ IF dir[Client][p].head = job[Client].want
        THEN NextPack(Client, job[Client])
        ELSE Go(Client, "status")
  /\ UNCHANGED <<remote, dir, served, odd, count>>

\* DownloadComplete: the page is no longer busy, the player may log in again.
DownloadComplete ==
  /\ Is(Client, "done") /\ job' = [job EXCEPT ![Client] = Idle]
  /\ UNCHANGED <<remote, row, dir, list, served, odd, count>>

-----------------------------------------------------------------------------
(* The world around.                                                        *)

DisabledRows(m) == {p \in Packs : row[m][p].in /\ ~row[m][p].enabled}
\* What a crash leaves of the directory in hand.
Writing == {"clone", "cloneFiles", "pullFiles", "checkoutFiles", "rmdir"}
Left(m) ==
  LET d == dir[m][Pack(m)] IN
  CASE Is(m, "clone") -> {d, [d EXCEPT !.there = TRUE]}
    [] Is(m, "rmdir") -> {d, [NoDir EXCEPT !.there = TRUE, !.tree = Mixed]}
    [] OTHER          -> Torn(d)
\* The constructor of PackMan reads the list from the table; a server counts
\* its files again.
Restart(m) ==
  /\ count.crashes < MaxCrashes /\ (~Free(m) \/ list[m] # DisabledRows(m))
  /\ list' = [list EXCEPT ![m] = DisabledRows(m)]
  /\ job' = [job EXCEPT ![m] = Idle]
  /\ \/ /\ job[m].at \notin Writing /\ UNCHANGED dir
        /\ IF job[m].at \in {"insert", "record"} THEN Mishap(m, Pack(m))
           ELSE UNCHANGED odd
     \/ /\ job[m].at \in Writing
        /\ \E d \in Left(m) :
             /\ Becomes(m, d)
             /\ IF Is(m, "rmdir") \/ d.tree = Mixed THEN Mishap(m, Pack(m))
                ELSE UNCHANGED odd
  /\ served' = IF m = Server THEN Counted(m)' ELSE served
  /\ count' = [count EXCEPT !.crashes = @ + 1]
  /\ UNCHANGED <<remote, row>>

Publish(p) ==
  /\ count.published < MaxPublished
  /\ remote' = [remote EXCEPT ![p] = @ + 1]
  /\ count' = [count EXCEPT !.published = @ + 1]
  /\ UNCHANGED <<row, dir, list, job, served, odd>>

\* A developer changes files, also while a command is running.
Forcing == {"pull", "pullFiles", "checkout", "checkoutFiles"}
Edit(m, p) ==
  /\ Spend(m) /\ dir[m][p].tree # None
  /\ dir' = [dir EXCEPT ![m][p].edited = TRUE]
  /\ IF Pack(m) = p /\ job[m].at \in Forcing
     THEN job' = [job EXCEPT ![m].raced = TRUE] ELSE UNCHANGED job
  /\ Mishap(m, p)
  /\ UNCHANGED <<remote, row, list, served>>

Next ==
  \/ \E m \in Hosts :
       \/ Clone(m) \/ CloneFiles(m) \/ Insert(m) \/ CheckStatus(m)
       \/ Pull(m) \/ PullFiles(m) \/ Checkout(m) \/ CheckoutFiles(m)
       \/ Refresh(m) \/ Record(m) \/ RemoveDir(m) \/ Restart(m)
       \/ \E p \in Packs : \/ DownloadNewPack(m, p) \/ EnablePack(m, p)
                           \/ DisablePack(m, p) \/ UpgradePack(m, p)
                           \/ RemovePack(m, p) \/ Edit(m, p)
  \/ LoadSummary \/ EnableSynced \/ DownloadComplete
  \/ \E p \in Packs : Publish(p)

Spec == Init /\ [][Next]_vars

-----------------------------------------------------------------------------
(* Properties.                                                              *)

\* The values the state can have; what is disabled in the table is in the list.
TypeOK ==
  /\ remote \in [Packs -> Commits]
  /\ row \in [Hosts -> [Packs -> [in : BOOLEAN, hash : Commits \cup {None, Bad},
                                  enabled : BOOLEAN]]]
  /\ dir \in [Hosts -> [Packs -> [there : BOOLEAN, head : Commits \cup {None},
                                  branch : Commits \cup {None},
                                  tree : Commits \cup {None, Mixed},
                                  edited : BOOLEAN, cut : BOOLEAN]]]
  /\ list \in [Hosts -> SUBSET Packs] /\ odd \in [Hosts -> SUBSET Packs]
  /\ \A m \in Hosts : \A p \in Packs :
       /\ ~row[m][p].in => row[m][p] = NoRow
       /\ ~dir[m][p].there => dir[m][p] = NoDir
       /\ row[m][p].in /\ ~row[m][p].enabled => p \in list[m]

\* What the summary says of a package is what the MD5 counts of it: enabled
\* rows are counted, at the commit of their hash, and nothing else is, between
\* the commands of a server, also after a checkout that moved HEAD and no
\* file.  Left aside are the mishaps: a clone failed, a disabled package was
\* removed and installed again, a crash came between the table and the
\* directory, files of two commits were left, checkout_branch left those of
\* another commit, or files were changed by hand.
Advertised ==
  Free(Server) => \A p \in Packs \ odd[Server] :
    IF row[Server][p].in /\ row[Server][p].enabled
    THEN <<p, row[Server][p].hash, FALSE>> \in Counted(Server)
    ELSE \A c \in Counted(Server) : c[1] # p

\* A synchronisation none of whose git operations failed leaves exactly the
\* packages of the summary, each with HEAD at its hash and with the files of
\* that commit, whatever was installed, disabled or left half done by earlier
\* ones that failed or crashed: cloned and not checked out, pulled and not
\* checked out, enabled and not pulled.  Only where a checkout was cut after
\* HEAD had moved, the files stay old: packman.cpp:87 compares HEAD and skips
\* the package, now and ever after.
SyncDelivers ==
  Is(Client, "done") /\ job[Client].ok =>
    \A p \in Packs \ odd[Client] :
      IF \E e \in job[Client].summary : e.pack = p
      THEN \E e \in job[Client].summary :
             /\ e.pack = p /\ dir[Client][p].head = e.hash
             /\ dir[Client][p].cut \/ <<p, e.hash, FALSE>> \in Counted(Client)
      ELSE \A c \in Counted(Client) : c[1] # p

\* package.rst:28-33: after that the client passes the MD5 check, if the
\* server has not changed, neither side had a mishap, and no checkout on the
\* client was cut.  A cut on the server does no harm.
SyncedGetsIn ==
  /\ Is(Client, "done") /\ job[Client].ok
  /\ odd[Client] = {} /\ odd[Server] = {}
  /\ \A p \in Packs : ~dir[Client][p].cut
  /\ Free(Server) /\ served = Counted(Server)
  /\ job[Client].summary = Summary(Server)
  => Counted(Client) = served

\* The checkouts are forced, yet changes made by hand are lost only with the
\* package or if they were made after the command had asked for its status:
\* what is there before, also while another package is worked on, survives
\* every command, failure and crash (PackMan::status comes first).  What is
\* changed between the status (packman.cpp:172, 194) and the forced checkout
\* (319, 345), during the fetch for example, is lost.
EditsSurvive ==
  [][\A m \in Hosts, p \in Packs :
       dir[m][p].edited /\ ~dir'[m][p].edited
         => Pack(m) = p /\ (Is(m, "rmdir") \/ job[m].raced)]_vars

\* package.rst:30-31: the directory of every package ends up checked out at
\* the hash of the summary.
FilesDelivered ==
  Is(Client, "done") /\ job[Client].ok =>
    \A e \in job[Client].summary :
      e.pack \notin odd[Client] => <<e.pack, e.hash, FALSE>> \in Counted(Client)

\* package.rst:32: where the directory is missing it is cloned.
MissingIsCloned ==
  Is(Client, "status") /\ ~dir[Client][Pack(Client)].there
    => job[Client].do # "sync" \/ job[Client].cloned # "untried"

\* package.rst:35: where a directory has uncommitted changes, an error is
\* reported; loadSummary has to ask for the status to do so.
DirtyIsReported ==
  [][EnableSynced /\ Dirty(Client, Pack(Client)) => Is(Client, "status")']_vars
=============================================================================
