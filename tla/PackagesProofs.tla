---------------------------- MODULE PackagesProofs ----------------------------
(***************************************************************************)
(* Theorems about Packages, for any set of packages and any number of      *)
(* commits, commands, synchronisations and crashes: types, that forced     *)
(* checkouts lose no changes made by hand, and how table, directory and    *)
(* list of a host relate: the summary of a server says what its MD5        *)
(* counts, and a synchronisation leaves what the summary says.             *)
(***************************************************************************)
EXTENDS Packages, TLAPS

Hashes  == Commits \cup {None, Bad}
RowType == [in : BOOLEAN, hash : Hashes, enabled : BOOLEAN]
DirType == [there : BOOLEAN, head : Commits \cup {None}, branch : Commits \cup {None},
            tree : Commits \cup {None, Mixed}, edited : BOOLEAN, cut : BOOLEAN]
Entries == [pack : Packs, hash : Hashes]
Busy    == {"clone", "cloneFiles", "insert", "enable", "status", "pull", "pullFiles",
            "checkout", "checkoutFiles", "record", "rmdir"}
JobType == [do : {"nothing", "install", "enable", "disable", "upgrade", "remove", "sync"},
            at : {"idle", "refresh", "done"} \cup Busy, pack : Packs \cup {NoPack},
            want : Hashes, todo : SUBSET Entries, summary : SUBSET Entries,
            cloned : {"untried", "yes", "no"}, ok : BOOLEAN, raced : BOOLEAN]

-----------------------------------------------------------------------------
(* The invariant, host by host.                                             *)

RowOK(r, off) == /\ ~r.in => r.hash = None /\ ~r.enabled
                 /\ r.in /\ ~r.enabled => off
DirOK(d)      == /\ ~d.there => d = NoDir
                 /\ d.head = None => d.branch = None
                 /\ d.tree = None => ~d.edited

Rows(r, l) == r \in [Packs -> RowType] /\ \A p \in Packs : RowOK(r[p], p \in l)
Dirs(d)    == d \in [Packs -> DirType] /\ \A p \in Packs : DirOK(d[p])
\* A synchronised package has a row; what is about to be overwritten by a
\* forced checkout has no changes but those made after its status.
Job(j, r, d) ==
  /\ j \in JobType
  /\ j.at \in Busy => j.pack \in Packs
  /\ j.at = "enable" => r[j.pack].in
  /\ j.at \in Forcing => d[j.pack].there /\ (d[j.pack].edited => j.raced)
  /\ j.at = "cloneFiles" => d[j.pack].there /\ d[j.pack].tree = None

HostOK(r, d, l, o, j) == Rows(r, l) /\ Dirs(d) /\ l \subseteq Packs /\ o \subseteq Packs /\ Job(j, r, d)

OfHosts(f) == f = [m \in Hosts |-> f[m]]
\* No commit is newer than what was published.
Published ==
  /\ count.published \in Nat /\ count.published <= MaxPublished
  /\ remote \in [Packs -> Commits]
  /\ \A p \in Packs : remote[p] <= count.published + 1
Inv ==
  /\ Published
  /\ OfHosts(row) /\ OfHosts(dir) /\ OfHosts(list) /\ OfHosts(odd) /\ OfHosts(job)
  /\ \A m \in Hosts : HostOK(row[m], dir[m], list[m], odd[m], job[m])
\* What EditsSurvive says of a step, and of a host that takes one.
Kept == \A m \in Hosts, p \in Packs :
          dir[m][p].edited /\ ~dir'[m][p].edited
            => Pack(m) = p /\ (Is(m, "rmdir") \/ job[m].raced)

Keeps(m, d) == \A p \in Packs :
                 dir[m][p].edited /\ ~d[p].edited
                   => Pack(m) = p /\ (Is(m, "rmdir") \/ job[m].raced)

LEMMA CommitFacts == /\ None \notin Commits /\ 1 \in Commits
                     /\ None \in Hashes /\ Bad \in Hashes /\ Commits \subseteq Hashes
  BY PackagesConstants DEF Commits, None, Bad, Hashes

LEMMA InvType == Inv => TypeOK
<1> SUFFICES ASSUME Inv PROVE TypeOK
  OBVIOUS
<1>1. \A m \in Hosts : /\ row[m] \in [Packs -> RowType] /\ dir[m] \in [Packs -> DirType]
                       /\ list[m] \subseteq Packs /\ odd[m] \subseteq Packs
                       /\ \A p \in Packs : RowOK(row[m][p], p \in list[m]) /\ DirOK(dir[m][p])
  BY DEF Inv, HostOK, Rows, Dirs
<1>2. /\ row \in [Hosts -> [Packs -> RowType]] /\ dir \in [Hosts -> [Packs -> DirType]]
      /\ list \in [Hosts -> SUBSET Packs] /\ odd \in [Hosts -> SUBSET Packs]
  <2>1. OfHosts(row) /\ OfHosts(dir) /\ OfHosts(list) /\ OfHosts(odd)
    BY DEF Inv
  <2> QED
    BY <1>1, <2>1 DEF OfHosts
<1>3. ASSUME NEW m \in Hosts, NEW p \in Packs
      PROVE  /\ ~row[m][p].in => row[m][p] = NoRow
             /\ ~dir[m][p].there => dir[m][p] = NoDir
             /\ row[m][p].in /\ ~row[m][p].enabled => p \in list[m]
  <2>1. row[m][p] \in RowType /\ dir[m][p] \in DirType /\ RowOK(row[m][p], p \in list[m])
        /\ DirOK(dir[m][p])
    BY <1>1
  <2> QED
    BY <2>1 DEF RowOK, DirOK, RowType, NoRow
<1> QED
  BY <1>2, <1>3 DEF TypeOK, RowType, DirType, Hashes, Inv, Published

\* A step of one host.
LEMMA HostStep ==
  ASSUME Inv, NEW m \in Hosts, NEW r, NEW d, NEW l, NEW o, NEW j,
         row' = [row EXCEPT ![m] = r], dir' = [dir EXCEPT ![m] = d],
         list' = [list EXCEPT ![m] = l], odd' = [odd EXCEPT ![m] = o],
         job' = [job EXCEPT ![m] = j], HostOK(r, d, l, o, j),
         remote' = remote, count'.published = count.published,
         Keeps(m, d)
  PROVE  Inv' /\ Kept
<1>1. /\ OfHosts(row) /\ OfHosts(dir) /\ OfHosts(list) /\ OfHosts(odd) /\ OfHosts(job)
  BY DEF Inv
<1>2. /\ OfHosts(row') /\ OfHosts(dir') /\ OfHosts(list') /\ OfHosts(odd') /\ OfHosts(job')
      /\ row'[m] = r /\ dir'[m] = d /\ list'[m] = l /\ odd'[m] = o /\ job'[m] = j
      /\ \A h \in Hosts : h # m => /\ row'[h] = row[h] /\ dir'[h] = dir[h] /\ list'[h] = list[h]
                                   /\ odd'[h] = odd[h] /\ job'[h] = job[h]
  BY <1>1 DEF OfHosts
<1>3. \A h \in Hosts : HostOK(row'[h], dir'[h], list'[h], odd'[h], job'[h])
  BY <1>2 DEF Inv
<1>4. Published'
  BY DEF Inv, Published
<1>5. Kept
  BY <1>2 DEF Kept, Keeps
<1> QED
  BY <1>2, <1>3, <1>4, <1>5 DEF Inv, OfHosts

\* What is so of the host.
LEMMA Host ==
  ASSUME Inv, NEW m \in Hosts
  PROVE  /\ HostOK(row[m], dir[m], list[m], odd[m], job[m])
         /\ row = [row EXCEPT ![m] = row[m]] /\ dir = [dir EXCEPT ![m] = dir[m]]
         /\ list = [list EXCEPT ![m] = list[m]] /\ odd = [odd EXCEPT ![m] = odd[m]]
         /\ job = [job EXCEPT ![m] = job[m]]
<1>1. /\ OfHosts(row) /\ OfHosts(dir) /\ OfHosts(list) /\ OfHosts(odd) /\ OfHosts(job)
  BY DEF Inv
<1> QED
  BY <1>1 DEF Inv, OfHosts

-----------------------------------------------------------------------------
(* Rows, directories and jobs, one at a time.                               *)

LEMMA OneRow ==
  ASSUME NEW r, NEW l, Rows(r, l), NEW p \in Packs, NEW x \in RowType, NEW k,
         RowOK(x, p \in k), \A q \in Packs : q # p => (q \in l => q \in k)
  PROVE  Rows([r EXCEPT ![p] = x], k)
  BY DEF Rows, RowOK

LEMMA OneDir ==
  ASSUME NEW d, Dirs(d), NEW p \in Packs, NEW x \in DirType, DirOK(x)
  PROVE  /\ Dirs([d EXCEPT ![p] = x]) /\ [d EXCEPT ![p] = x][p] = x
         /\ \A q \in Packs : q # p => [d EXCEPT ![p] = x][q] = d[q]
  BY DEF Dirs

LEMMA NoDirType == NoDir \in DirType /\ DirOK(NoDir)
  BY CommitFacts DEF NoDir, DirType, DirOK

\* A fresh clone, a checkout, what is left of one, and another HEAD.
LEMMA CloneType ==
  ASSUME NEW c \in Commits
  PROVE  Cloned(c) \in DirType /\ DirOK(Cloned(c)) /\ Cloned(c).there /\ Cloned(c).tree = None
  BY CommitFacts DEF Cloned, NoDir, DirType, DirOK

LEMMA ForcedType ==
  ASSUME NEW d \in DirType, DirOK(d), d.there
  PROVE  Forced(d) \in DirType /\ DirOK(Forced(d)) /\ Forced(d).there /\ ~Forced(d).edited
  BY DEF Forced, DirType, DirOK

LEMMA TornFacts ==
  ASSUME NEW d \in DirType, NEW x \in Torn(d)
  PROVE  /\ x \in DirType /\ x.there = d.there /\ x.head = d.head /\ x.branch = d.branch
         /\ x.tree \in {d.tree, Mixed} /\ x.cut = (x.tree # d.head)
         /\ x.edited => d.edited
<1> DEFINE K(t, e) == [d EXCEPT !.tree = t, !.edited = e, !.cut = t # d.head]
           T == {d.tree, Between(d)}
           E == {d.edited, FALSE}
<1>1. x \in {K(t, e) : t \in T, e \in E}
  BY DEF Torn
<1> HIDE DEF K, T, E
<1>2. PICK t \in T, e \in E : x = K(t, e)
  BY <1>1
<1>3. e \in {d.edited, FALSE}
  BY <1>2 DEF E
<1>4. t \in {d.tree, Mixed}
  BY <1>2 DEF Between, T
<1>5. t \in Commits \cup {None, Mixed} /\ e \in BOOLEAN /\ (t # d.head) \in BOOLEAN
  BY <1>3, <1>4 DEF DirType
<1>6. /\ x \in DirType /\ x.there = d.there /\ x.head = d.head /\ x.branch = d.branch
      /\ x.tree = t /\ x.edited = e /\ x.cut = (t # d.head)
  BY <1>2, <1>5 DEF DirType, K
<1> QED
  BY <1>3, <1>4, <1>6

LEMMA TornType ==
  ASSUME NEW d \in DirType, DirOK(d), d.there, NEW x \in Torn(d)
  PROVE  x \in DirType /\ DirOK(x) /\ (x.edited => d.edited)
<1>1. Mixed # None
  BY DEF Mixed, None
<1> QED
  BY <1>1, TornFacts DEF DirOK

LEMMA HeadType ==
  ASSUME NEW d \in DirType, DirOK(d), d.there, NEW c \in Commits
  PROVE  LET x == [d EXCEPT !.head = c]
         IN x \in DirType /\ DirOK(x) /\ x.there /\ x.edited = d.edited /\ x.tree = d.tree
  BY CommitFacts DEF DirType, DirOK

\* A job that is idle or at a place that asks for nothing but its package.
Quiet == {"idle", "refresh", "done", "clone", "insert", "status", "record", "rmdir"}
LEMMA QuietJob ==
  ASSUME NEW j \in JobType, j.at \in Quiet, j.at \in Busy => j.pack \in Packs, NEW r, NEW d
  PROVE  Job(j, r, d)
  BY DEF Job, Quiet, Forcing

LEMMA IdleJob == Idle \in JobType /\ \A r, d : Job(Idle, r, d)
<1>1. Idle \in JobType
  BY CommitFacts DEF Idle, JobType
<1> QED
  BY <1>1 DEF Job, Idle, Busy, Forcing

\* The next package of a synchronisation.
LEMMA NextJob ==
  ASSUME NEW m \in Hosts, NEW j \in JobType, NextPack(m, j)
  PROVE  \E k \in JobType :
           /\ job' = [job EXCEPT ![m] = k] /\ k.at \in {"done", "enable", "clone"}
           /\ k.at \in Busy => k.pack \in Packs
           /\ k.at = "enable" => row[m][k.pack].in
<1>1. CASE j.todo = {}
  <2> DEFINE k == [j EXCEPT !.at = "done"]
  <2>1. k \in JobType /\ k.at = "done"
    BY DEF JobType
  <2>2. job' = [job EXCEPT ![m] = k]
    BY <1>1 DEF NextPack
  <2>3. "done" \notin Busy
    BY DEF Busy
  <2> HIDE DEF k
  <2> QED
    BY <2>1, <2>2, <2>3
<1>2. CASE j.todo # {}
  <2> DEFINE K(e) == [j EXCEPT !.todo = @ \ {e}, !.pack = e.pack, !.want = e.hash,
                               !.cloned = "untried", !.raced = FALSE,
                               !.at = IF row[m][e.pack].in THEN "enable" ELSE "clone"]
  <2>1. PICK e \in j.todo : job' = [job EXCEPT ![m] = K(e)]
    BY <1>2 DEF NextPack
  <2>2. e \in Entries
    BY <2>1 DEF JobType
  <2>3. e.pack \in Packs /\ e.hash \in Hashes
    BY <2>2 DEF Entries
  <2> DEFINE at == IF row[m][e.pack].in THEN "enable" ELSE "clone"
  <2>5. at \in {"idle", "refresh", "done"} \cup Busy
    BY DEF Busy
  <2>6. j.todo \ {e} \subseteq Entries
    BY DEF JobType
  <2> HIDE DEF at
  <2>4. K(e) \in JobType /\ K(e).at = at /\ K(e).pack = e.pack
    BY <2>3, <2>5, <2>6 DEF JobType, at
  <2> USE DEF at
  <2> HIDE DEF K
  <2> QED
    BY <2>1, <2>3, <2>4
<1> QED
  BY <1>1, <1>2

\* The job of a host that goes on with the next package.
LEMMA NextJobOK ==
  ASSUME NEW m \in Hosts, NEW j \in JobType, NextPack(m, j), NEW r,
         \A p \in Packs : row[m][p].in => r[p].in
  PROVE  \E k : job' = [job EXCEPT ![m] = k] /\ \A d : Job(k, r, d)
<1>1. PICK k \in JobType :
         /\ job' = [job EXCEPT ![m] = k] /\ k.at \in {"done", "enable", "clone"}
         /\ k.at \in Busy => k.pack \in Packs
         /\ k.at = "enable" => row[m][k.pack].in
  BY NextJob
<1>2. "enable" \in Busy /\ k.at \notin Forcing /\ k.at # "cloneFiles"
  BY <1>1 DEF Busy, Forcing
<1> QED
  BY <1>1, <1>2 DEF Job

\* The job at another place.
LEMMA GoJob ==
  ASSUME Inv, NEW m \in Hosts, NEW at \in {"refresh"} \cup Busy, job[m].at \in Busy
  PROVE  LET j == [job[m] EXCEPT !.at = at]
         IN j \in JobType /\ j.at = at /\ j.pack = job[m].pack /\ j.pack \in Packs
  BY DEF Inv, HostOK, Job, JobType

LEMMA GiveUpJob ==
  ASSUME Inv, NEW m \in Hosts, job[m].at \in Busy, GiveUp(m)
  PROVE  \E k : job' = [job EXCEPT ![m] = k] /\ \A d : Job(k, row[m], d)
<1>1. CASE job[m].do = "sync"
  <2>1. Failed(job[m]) \in JobType
    BY DEF Inv, HostOK, Job, Failed, JobType
  <2>2. NextPack(m, Failed(job[m]))
    BY <1>1 DEF GiveUp
  <2> QED
    BY <2>1, <2>2, NextJobOK
<1>2. CASE job[m].do # "sync"
  <2> DEFINE k == [job[m] EXCEPT !.at = "refresh"]
  <2>1. k \in JobType /\ k.at = "refresh" /\ k.pack \in Packs
    BY GoJob
  <2>2. job' = [job EXCEPT ![m] = k]
    BY <1>2, Host DEF GiveUp, Go
  <2> HIDE DEF k
  <2>3. \A d : Job(k, row[m], d)
    BY <2>1, QuietJob DEF Quiet
  <2> QED
    BY <2>2, <2>3
<1> QED
  BY <1>1, <1>2

\* The job at another place, of a package that has directory d.
LEMMA GoOK ==
  ASSUME Inv, NEW m \in Hosts, job[m].at \in Busy,
         NEW at \in {"refresh"} \cup Busy, at # "enable", Go(m, at), NEW x,
         at \in Forcing => x.there /\ (x.edited => job[m].raced),
         at = "cloneFiles" => x.there /\ x.tree = None
  PROVE  \E k : /\ job' = [job EXCEPT ![m] = k]
                /\ \A d : d[job[m].pack] = x => Job(k, row[m], d)
<1> DEFINE k == [job[m] EXCEPT !.at = at]
<1>1. k \in JobType /\ k.at = at /\ k.pack = job[m].pack /\ k.pack \in Packs
  BY GoJob
<1>2. k.raced = job[m].raced
  BY Host DEF HostOK, Job, JobType
<1>3. job' = [job EXCEPT ![m] = k]
  BY Host DEF Go
<1> HIDE DEF k
<1>4. \A d : d[job[m].pack] = x => Job(k, row[m], d)
  BY <1>1, <1>2 DEF Job
<1> QED
  BY <1>3, <1>4

\* A step of the job and the directories.
LEMMA DirStep ==
  ASSUME Inv, NEW m \in Hosts, NEW d, NEW j,
         dir' = [dir EXCEPT ![m] = d], job' = [job EXCEPT ![m] = j],
         Dirs(d), Job(j, row[m], d),
         row' = row, list' = list, odd' = odd, remote' = remote,
         count'.published = count.published,
         Keeps(m, d)
  PROVE  Inv' /\ Kept
<1>1. HostOK(row[m], d, list[m], odd[m], j)
  BY Host DEF HostOK
<1>2. row' = [row EXCEPT ![m] = row[m]]
  BY Host
<1>3. list' = [list EXCEPT ![m] = list[m]]
  BY Host
<1>4. odd' = [odd EXCEPT ![m] = odd[m]]
  BY Host
<1> QED
  BY <1>1, <1>2, <1>3, <1>4, HostStep

\* A step of the job alone.
LEMMA JobStep ==
  ASSUME Inv, NEW m \in Hosts, NEW j, job' = [job EXCEPT ![m] = j], Job(j, row[m], dir[m]),
         row' = row, dir' = dir, list' = list, odd' = odd, remote' = remote,
         count'.published = count.published
  PROVE  Inv' /\ Kept
<1>1. dir' = [dir EXCEPT ![m] = dir[m]] /\ Dirs(dir[m]) /\ Keeps(m, dir[m])
  BY Host DEF HostOK, Keeps
<1> QED
  BY <1>1, DirStep

\* odd only grows.
LEMMA OddStep ==
  ASSUME Inv, NEW m \in Hosts, NEW p \in Packs, odd' = odd \/ Mishap(m, p)
  PROVE  \E o : o \subseteq Packs /\ odd' = [odd EXCEPT ![m] = o]
<1>1. odd[m] \subseteq Packs /\ odd = [odd EXCEPT ![m] = odd[m]]
  BY Host DEF HostOK
<1>2. CASE odd' = odd
  BY <1>1, <1>2
<1>3. CASE Mishap(m, p)
  <2>1. odd' = [odd EXCEPT ![m] = odd[m] \cup {p}] /\ odd[m] \cup {p} \subseteq Packs
    BY <1>1, <1>3 DEF Mishap
  <2> QED
    BY <2>1
<1> QED
  BY <1>2, <1>3

\* The package in hand gets the directory x.
LEMMA HandStep ==
  ASSUME Inv, NEW m \in Hosts, job[m].at \in Busy, NEW x \in DirType, DirOK(x), Becomes(m, x),
         dir[m][job[m].pack].edited /\ ~x.edited => Is(m, "rmdir") \/ job[m].raced,
         NEW j, job' = [job EXCEPT ![m] = j],
         \A d : d[job[m].pack] = x => Job(j, row[m], d),
         odd' = odd \/ Mishap(m, job[m].pack), NEW l, list' = [list EXCEPT ![m] = l],
         Rows(row[m], l), l \subseteq Packs,
         row' = row, remote' = remote, count'.published = count.published
  PROVE  Inv' /\ Kept
<1> DEFINE p == job[m].pack
           d == [dir[m] EXCEPT ![p] = x]
<1>1. p \in Packs /\ Dirs(dir[m])
  BY Host DEF HostOK, Job
<1>2. dir' = [dir EXCEPT ![m] = d]
  BY Host DEF Becomes, Pack
<1>3. Dirs(d) /\ d[p] = x /\ \A q \in Packs : q # p => d[q] = dir[m][q]
  BY <1>1, OneDir
<1> HIDE DEF d
<1>4. PICK o : o \subseteq Packs /\ odd' = [odd EXCEPT ![m] = o]
  BY <1>1, OddStep
<1>5. HostOK(row[m], d, l, o, j)
  BY <1>3, <1>4 DEF HostOK
<1>6. Keeps(m, d)
  BY <1>1, <1>3 DEF Keeps, Pack
<1>7. row' = [row EXCEPT ![m] = row[m]]
  BY Host
<1> QED
  BY <1>2, <1>4, <1>5, <1>6, <1>7, HostStep

\* What is so of the package in hand.
LEMMA Hand ==
  ASSUME Inv, NEW m \in Hosts, job[m].at \in Busy
  PROVE  LET d == dir[m][Pack(m)] IN
         /\ Pack(m) = job[m].pack /\ Pack(m) \in Packs /\ d \in DirType /\ DirOK(d)
         /\ job[m].at \in Forcing => d.there /\ (d.edited => job[m].raced)
         /\ job[m].at = "cloneFiles" => d.there /\ d.tree = None
         /\ job[m] \in JobType /\ remote[Pack(m)] \in Commits
         /\ Rows(row[m], list[m]) /\ list[m] \subseteq Packs
         /\ list = [list EXCEPT ![m] = list[m]]
<1>1. Job(job[m], row[m], dir[m]) /\ Dirs(dir[m]) /\ Rows(row[m], list[m]) /\ list[m] \subseteq Packs
  BY Host DEF HostOK
<1>2. job[m].pack \in Packs
  BY <1>1 DEF Job
<1>3. dir[m][job[m].pack] \in DirType /\ DirOK(dir[m][job[m].pack])
  BY <1>1, <1>2 DEF Dirs
<1>4. remote[job[m].pack] \in Commits
  BY <1>2 DEF Inv, Published
<1> QED
  BY <1>1, <1>2, <1>3, <1>4, Host DEF Job, Pack

-----------------------------------------------------------------------------
(* The steps of a command.                                                  *)

\* A clone that failed.
LEMMA FailsOK ==
  ASSUME Inv, NEW m \in Hosts, job[m].at \in Busy, job' = [job EXCEPT ![m] = Fails(@)]
  PROVE  \E k : job' = [job EXCEPT ![m] = k] /\ \A d : Job(k, row[m], d)
<1> DEFINE k == Fails(job[m])
<1>1. job[m] \in JobType /\ job[m].pack \in Packs
  BY Hand
<1>2. k \in JobType /\ k.at = "insert" /\ k.pack = job[m].pack
  BY <1>1 DEF Fails, Failed, JobType, Busy
<1>3. job' = [job EXCEPT ![m] = k]
  BY Host
<1> HIDE DEF k
<1>4. \A d : Job(k, row[m], d)
  BY <1>1, <1>2, QuietJob DEF Quiet
<1> QED
  BY <1>3, <1>4

LEMMA CloneInv == ASSUME Inv, NEW m \in Hosts, Clone(m) PROVE Inv' /\ Kept
<1>1. /\ job[m].at = "clone" /\ job[m].at \in Busy
      /\ remote' = remote /\ row' = row /\ list' = list /\ odd' = odd /\ count' = count
  BY DEF Clone, Is, Busy
<1>2. CASE /\ ~dir[m][Pack(m)].there /\ Becomes(m, Cloned(remote[Pack(m)]))
           /\ Go(m, "cloneFiles")
  <2> DEFINE x == Cloned(remote[Pack(m)])
  <2>1. x \in DirType /\ DirOK(x) /\ x.there /\ x.tree = None
    BY <1>1, Hand, CloneType
  <2>2. ~dir[m][job[m].pack].edited
    <3>1. dir[m][Pack(m)] = NoDir
      BY <1>1, <1>2, Hand DEF DirOK
    <3> QED
      BY <3>1 DEF NoDir, Pack
  <2>3. Becomes(m, x)
    BY <1>2
  <2> HIDE DEF x
  <2>4. "cloneFiles" \in Busy /\ "cloneFiles" \notin Forcing
    BY DEF Busy, Forcing
  <2>5. PICK k : /\ job' = [job EXCEPT ![m] = k]
                 /\ \A d : d[job[m].pack] = x => Job(k, row[m], d)
    BY <1>1, <1>2, <2>1, <2>4, GoOK
  <2>6. /\ list' = [list EXCEPT ![m] = list[m]] /\ Rows(row[m], list[m])
        /\ list[m] \subseteq Packs /\ count'.published = count.published
    BY <1>1, Hand
  <2> QED
    BY <1>1, <2>1, <2>2, <2>3, <2>5, <2>6, HandStep
<1>3. CASE job' = [job EXCEPT ![m] = Fails(@)] /\ dir' = dir
  BY <1>1, <1>3, FailsOK, JobStep
<1> QED
  BY <1>2, <1>3 DEF Clone

LEMMA CloneFilesInv == ASSUME Inv, NEW m \in Hosts, CloneFiles(m) PROVE Inv' /\ Kept
<1> DEFINE c == dir[m][Pack(m)]
<1>1. /\ job[m].at = "cloneFiles" /\ job[m].at \in Busy
      /\ remote' = remote /\ row' = row /\ list' = list /\ odd' = odd /\ count' = count
  BY DEF CloneFiles, Is, Busy
<1>2. c.there /\ ~c.edited /\ c \in DirType /\ DirOK(c) /\ Pack(m) = job[m].pack
  BY <1>1, Hand DEF DirOK
<1>3. ASSUME NEW x \in DirType, DirOK(x), Becomes(m, x), NEW k, job' = [job EXCEPT ![m] = k],
             \A d : Job(k, row[m], d)
      PROVE  Inv' /\ Kept
  BY <1>1, <1>2, <1>3, Hand, HandStep
<1>4. CASE /\ Becomes(m, Forced(c))
           /\ job' = [job EXCEPT ![m] = [@ EXCEPT !.at = "insert", !.cloned = "yes"]]
  <2> DEFINE k == [job[m] EXCEPT !.at = "insert", !.cloned = "yes"]
             x == Forced(c)
  <2>0. job[m] \in JobType /\ job[m].pack \in Packs
    BY <1>1, Hand
  <2>1. k \in JobType /\ k.at = "insert" /\ k.pack = job[m].pack /\ k.pack \in Packs
    BY <2>0 DEF JobType, Busy
  <2>2. job' = [job EXCEPT ![m] = k]
    BY <1>4, Host
  <2>3. x \in DirType /\ DirOK(x) /\ Becomes(m, x)
    BY <1>2, <1>4, ForcedType
  <2> HIDE DEF k, x, c
  <2>4. \A d : Job(k, row[m], d)
    BY <2>1, QuietJob DEF Quiet
  <2> QED
    BY <1>3, <2>2, <2>3, <2>4
<1>5. CASE job' = [job EXCEPT ![m] = Fails(@)] /\ Becomes(m, NoDir)
  BY <1>1, <1>3, <1>5, FailsOK, NoDirType
<1> QED
  BY <1>4, <1>5 DEF CloneFiles

LEMMA InsertInv == ASSUME Inv, NEW m \in Hosts, Insert(m) PROVE Inv' /\ Kept
<1> DEFINE p == job[m].pack
           x == IF row[m][p].in THEN row[m][p]
                ELSE [in |-> TRUE, hash |-> IF job[m].cloned = "yes" THEN dir[m][p].head ELSE Bad,
                      enabled |-> TRUE]
           r == [row[m] EXCEPT ![p] = x]
<1>1. /\ job[m].at = "insert" /\ p \in Packs /\ job[m] \in JobType
      /\ Rows(row[m], list[m]) /\ Dirs(dir[m])
      /\ remote' = remote /\ dir' = dir /\ list' = list /\ count' = count
  BY Host DEF Insert, Is, HostOK, Job, Busy
<1>2. x \in RowType /\ RowOK(x, p \in list[m]) /\ x.in
  <2>1. dir[m][p].head \in Commits \cup {None}
    BY <1>1 DEF Dirs, DirType
  <2>2. row[m][p] \in RowType /\ RowOK(row[m][p], p \in list[m])
    BY <1>1 DEF Rows
  <2> QED
    BY <2>1, <2>2, CommitFacts DEF RowType, RowOK
<1>3. row' = [row EXCEPT ![m] = r]
  BY Host DEF Insert, Pack
<1> HIDE DEF x
<1>4. Rows(r, list[m]) /\ r[p].in
  <2>1. Rows(r, list[m])
    BY <1>1, <1>2, OneRow
  <2> QED
    BY <1>1, <1>2, <2>1 DEF Rows
<1> HIDE DEF r
<1>5. PICK o : o \subseteq Packs /\ odd' = [odd EXCEPT ![m] = o]
  <2>1. odd' = odd \/ Mishap(m, p)
    BY DEF Insert, Pack
  <2> QED
    BY <1>1, <2>1, OddStep
<1>6. CASE job' = [job EXCEPT ![m].at = "enable"]
  <2> DEFINE j == [job[m] EXCEPT !.at = "enable"]
  <2>1. j \in JobType /\ j.at = "enable" /\ j.pack = p
    BY <1>1, GoJob DEF Busy
  <2>2. job' = [job EXCEPT ![m] = j]
    BY <1>6, Host
  <2> HIDE DEF j
  <2>4. j.at \notin Forcing /\ j.at # "cloneFiles" /\ Keeps(m, dir[m])
    BY <2>1 DEF Forcing, Keeps
  <2>5. Job(j, r, dir[m])
    BY <1>1, <1>4, <2>1, <2>4 DEF Job
  <2>3. HostOK(r, dir[m], list[m], o, j) /\ Keeps(m, dir[m])
    BY <1>4, <1>5, <2>4, <2>5, Host DEF HostOK
  <2> QED
    BY <1>1, <1>3, <1>5, <2>2, <2>3, Host, HostStep
<1>7. CASE job' = [job EXCEPT ![m] = Idle]
  <2>1. HostOK(r, dir[m], list[m], o, Idle) /\ Keeps(m, dir[m])
    BY <1>1, <1>4, <1>5, IdleJob, Host DEF HostOK, Keeps
  <2> QED
    BY <1>1, <1>3, <1>5, <1>7, <2>1, Host, HostStep
<1> QED
  BY <1>6, <1>7 DEF Insert, Go

LEMMA CheckStatusInv == ASSUME Inv, NEW m \in Hosts, CheckStatus(m) PROVE Inv' /\ Kept
<1>1. /\ job[m].at = "status" /\ job[m].at \in Busy
      /\ remote' = remote /\ dir' = dir /\ list' = list /\ count' = count
      /\ row' = row /\ odd' = odd
  BY DEF CheckStatus, Is, Busy
<1>2. CASE Status(m, Pack(m)) = 0 /\ Go(m, "pull")
  <2> DEFINE x == dir[m][job[m].pack]
  <2>1. x.there /\ ~x.edited
    BY <1>2 DEF Status, Dirty, Pack
  <2> HIDE DEF x
  <2>2. "pull" \in Busy /\ "pull" # "cloneFiles"
    BY DEF Busy
  <2>3. PICK k : /\ job' = [job EXCEPT ![m] = k]
                 /\ \A d : d[job[m].pack] = x => Job(k, row[m], d)
    BY <1>1, <1>2, <2>1, <2>2, GoOK
  <2> QED
    BY <1>1, <2>3, JobStep DEF x
<1>3. CASE GiveUp(m)
  BY <1>1, <1>3, GiveUpJob, JobStep
<1> QED
  BY <1>2, <1>3 DEF CheckStatus

\* HEAD moves, and the job to the checkout of its files.
LEMMA HeadStep ==
  ASSUME Inv, NEW m \in Hosts, job[m].at \in Forcing, NEW c \in Commits, NEW at \in Forcing,
         Becomes(m, [dir[m][Pack(m)] EXCEPT !.head = c]), Go(m, at),
         row' = row, list' = list, odd' = odd, remote' = remote, count' = count
  PROVE  Inv' /\ Kept
<1> DEFINE d == dir[m][Pack(m)]
           x == [d EXCEPT !.head = c]
<1>1. job[m].at \in Busy /\ at \in Busy /\ at # "enable" /\ at # "cloneFiles"
  BY DEF Forcing, Busy
<1>2. /\ d \in DirType /\ DirOK(d) /\ d.there /\ (d.edited => job[m].raced)
      /\ Pack(m) = job[m].pack
  BY <1>1, Hand
<1>3. x \in DirType /\ DirOK(x) /\ x.there /\ x.edited = d.edited
  BY <1>2, HeadType
<1>4. Becomes(m, x)
  OBVIOUS
<1> HIDE DEF x, d
<1>5. PICK k : /\ job' = [job EXCEPT ![m] = k]
               /\ \A f : f[job[m].pack] = x => Job(k, row[m], f)
  BY <1>1, <1>2, <1>3, GoOK
<1>6. dir[m][job[m].pack].edited => x.edited
  BY <1>2, <1>3 DEF d
<1>7. /\ list' = [list EXCEPT ![m] = list[m]] /\ Rows(row[m], list[m])
      /\ list[m] \subseteq Packs /\ count'.published = count.published
  BY <1>1, Hand
<1> QED
  BY <1>1, <1>3, <1>4, <1>5, <1>6, <1>7, HandStep

LEMMA PullInv == ASSUME Inv, NEW m \in Hosts, Pull(m) PROVE Inv' /\ Kept
<1>1. /\ job[m].at = "pull" /\ job[m].at \in Busy /\ "pull" \in Forcing /\ "pullFiles" \in Forcing
      /\ remote' = remote /\ list' = list /\ count' = count /\ row' = row /\ odd' = odd
  BY DEF Pull, Is, Busy, Forcing
<1>2. CASE /\ Becomes(m, [dir[m][Pack(m)] EXCEPT !.head = remote[Pack(m)]])
           /\ Go(m, "pullFiles")
  BY <1>1, <1>2, Hand, HeadStep
<1>3. CASE GiveUp(m) /\ dir' = dir
  BY <1>1, <1>3, GiveUpJob, JobStep
<1> QED
  BY <1>2, <1>3 DEF Pull

LEMMA CheckoutInv == ASSUME Inv, NEW m \in Hosts, Checkout(m) PROVE Inv' /\ Kept
<1>1. /\ job[m].at = "checkout" /\ job[m].at \in Busy
      /\ "checkout" \in Forcing /\ "checkoutFiles" \in Forcing
      /\ remote' = remote /\ list' = list /\ count' = count /\ row' = row /\ odd' = odd
  BY DEF Checkout, Is, Busy, Forcing
<1>2. CASE /\ job[m].want \in 1..remote[Pack(m)]
           /\ Becomes(m, [dir[m][Pack(m)] EXCEPT !.head = job[m].want])
           /\ Go(m, "checkoutFiles")
  <2>1. job[m].want \in Commits
    <3>1. remote[Pack(m)] \in 1..MaxPublished + 1
      BY <1>1, Hand DEF Commits
    <3> QED
      BY <1>2, <3>1, PackagesConstants DEF Commits
  <2> QED
    BY <1>1, <1>2, <2>1, HeadStep
<1>3. CASE GiveUp(m) /\ dir' = dir
  BY <1>1, <1>3, GiveUpJob, JobStep
<1> QED
  BY <1>2, <1>3 DEF Checkout

\* A forced checkout, whole or not, and a job that minds no directory.
LEMMA FilesStep ==
  ASSUME Inv, NEW m \in Hosts, job[m].at \in Forcing,
         \/ Becomes(m, Forced(dir[m][Pack(m)])) /\ odd' = odd
         \/ Tears(m),
         NEW k, job' = [job EXCEPT ![m] = k], \A d : Job(k, row[m], d),
         row' = row, list' = list, remote' = remote, count' = count
  PROVE  Inv' /\ Kept
<1> DEFINE d == dir[m][Pack(m)]
<1>1. job[m].at \in Busy
  BY DEF Forcing, Busy
<1>2. /\ d \in DirType /\ DirOK(d) /\ d.there /\ (d.edited => job[m].raced)
      /\ Pack(m) = job[m].pack
  BY <1>1, Hand
<1>3. CASE Becomes(m, Forced(d)) /\ odd' = odd
  <2> DEFINE x == Forced(d)
  <2>1. x \in DirType /\ DirOK(x) /\ ~x.edited /\ Becomes(m, x)
    BY <1>2, <1>3, ForcedType
  <2> HIDE DEF x
  <2>2. dir[m][job[m].pack].edited => job[m].raced
    BY <1>2
  <2> QED
    BY <1>1, <1>3, <2>1, <2>2, Hand, HandStep
<1>4. CASE Tears(m)
  <2>1. PICK x \in Torn(d) : Becomes(m, x) /\ (odd' = odd \/ Mishap(m, job[m].pack))
    BY <1>2, <1>4 DEF Tears
  <2>2. x \in DirType /\ DirOK(x)
    BY <1>2, TornType
  <2>3. dir[m][job[m].pack].edited => job[m].raced
    BY <1>2
  <2> QED
    BY <1>1, <1>4, <2>1, <2>2, <2>3, Hand, HandStep
<1> QED
  BY <1>3, <1>4

LEMMA PullFilesInv == ASSUME Inv, NEW m \in Hosts, PullFiles(m) PROVE Inv' /\ Kept
<1>1. /\ job[m].at = "pullFiles" /\ job[m].at \in Busy /\ job[m].at \in Forcing
      /\ remote' = remote /\ list' = list /\ count' = count /\ row' = row
  BY DEF PullFiles, Is, Busy, Forcing
<1>2. ASSUME NEW at \in {"checkout", "record"}, Go(m, at),
             Becomes(m, Forced(dir[m][Pack(m)])), odd' = odd
      PROVE  Inv' /\ Kept
  <2> DEFINE x == Forced(dir[m][Pack(m)])
  <2>1. x \in DirType /\ DirOK(x) /\ x.there /\ ~x.edited
    BY <1>1, Hand, ForcedType
  <2>2. Becomes(m, x)
    BY <1>2
  <2> HIDE DEF x
  <2>3. at \in Busy /\ at # "enable" /\ at # "cloneFiles"
    BY DEF Busy
  <2>4. PICK k : /\ job' = [job EXCEPT ![m] = k]
                 /\ \A d : d[job[m].pack] = x => Job(k, row[m], d)
    BY <1>1, <1>2, <2>1, <2>3, GoOK
  <2>5. dir[m][job[m].pack].edited => job[m].raced
    BY <1>1, Hand
  <2> QED
    BY <1>1, <1>2, <2>1, <2>2, <2>4, <2>5, Hand, HandStep
<1>3. CASE GiveUp(m) /\ Tears(m)
  <2>1. PICK k : job' = [job EXCEPT ![m] = k] /\ \A d : Job(k, row[m], d)
    BY <1>1, <1>3, GiveUpJob
  <2> QED
    BY <1>1, <1>3, <2>1, FilesStep
<1> QED
  BY <1>2, <1>3 DEF PullFiles

LEMMA CheckoutFilesInv == ASSUME Inv, NEW m \in Hosts, CheckoutFiles(m) PROVE Inv' /\ Kept
<1>1. /\ job[m].at = "checkoutFiles" /\ job[m].at \in Busy /\ job[m].at \in Forcing
      /\ remote' = remote /\ list' = list /\ count' = count /\ row' = row
  BY DEF CheckoutFiles, Is, Busy, Forcing
<1>2. \E k : job' = [job EXCEPT ![m] = k] /\ \A d : Job(k, row[m], d)
  <2>1. CASE GiveUp(m)
    BY <1>1, <2>1, GiveUpJob
  <2>2. CASE NextPack(m, job[m])
    BY <1>1, <2>2, Hand, NextJobOK
  <2> QED
    BY <2>1, <2>2 DEF CheckoutFiles
<1>3. \/ Becomes(m, Forced(dir[m][Pack(m)])) /\ odd' = odd
      \/ Tears(m)
  BY DEF CheckoutFiles
<1> QED
  BY <1>1, <1>2, <1>3, FilesStep

\* A step of a host that leaves its directories alone.
LEMMA TableStep ==
  ASSUME Inv, NEW m \in Hosts, NEW r, NEW l, NEW o, NEW j,
         row' = [row EXCEPT ![m] = r], list' = [list EXCEPT ![m] = l],
         odd' = [odd EXCEPT ![m] = o], job' = [job EXCEPT ![m] = j],
         Rows(r, l), l \subseteq Packs, o \subseteq Packs, Job(j, r, dir[m]),
         dir' = dir, remote' = remote, count'.published = count.published
  PROVE  Inv' /\ Kept
<1>1. HostOK(r, dir[m], l, o, j)
  BY Host DEF HostOK
<1>2. dir' = [dir EXCEPT ![m] = dir[m]]
  BY Host
<1>3. Keeps(m, dir[m])
  BY DEF Keeps
<1> QED
  BY <1>1, <1>2, <1>3, HostStep

LEMMA RefreshInv == ASSUME Inv, NEW m \in Hosts, Refresh(m) PROVE Inv' /\ Kept
  BY IdleJob, JobStep DEF Refresh

LEMMA RecordInv == ASSUME Inv, NEW m \in Hosts, Record(m) PROVE Inv' /\ Kept
<1> DEFINE p == job[m].pack
           x == [row[m][p] EXCEPT !.hash = IF row[m][p].in THEN dir[m][p].head ELSE @]
           r == [row[m] EXCEPT ![p] = x]
           j == [job[m] EXCEPT !.at = "refresh"]
<1>1. /\ job[m].at = "record" /\ job[m].at \in Busy /\ p \in Packs
      /\ Rows(row[m], list[m]) /\ Dirs(dir[m]) /\ list[m] \subseteq Packs /\ odd[m] \subseteq Packs
      /\ remote' = remote /\ dir' = dir /\ list' = list /\ count' = count /\ odd' = odd
  BY Host DEF Record, Is, HostOK, Job, Busy
<1>2. x \in RowType /\ RowOK(x, p \in list[m])
  <2>1. dir[m][p].head \in Hashes
    BY <1>1 DEF Dirs, DirType, Hashes
  <2>2. row[m][p] \in RowType /\ RowOK(row[m][p], p \in list[m])
    BY <1>1 DEF Rows
  <2> QED
    BY <2>1, <2>2 DEF RowType, RowOK
<1>3. j \in JobType /\ j.at = "refresh" /\ j.pack = p
  BY <1>1, GoJob
<1>4. row' = [row EXCEPT ![m] = r] /\ job' = [job EXCEPT ![m] = j]
  BY Host DEF Record, Pack, Go
<1>5. list' = [list EXCEPT ![m] = list[m]] /\ odd' = [odd EXCEPT ![m] = odd[m]]
  BY <1>1, Host
<1> HIDE DEF x, j
<1>6. Rows(r, list[m])
  BY <1>1, <1>2, OneRow
<1>7. Job(j, r, dir[m])
  BY <1>1, <1>3, QuietJob DEF Quiet
<1> HIDE DEF r
<1> QED
  BY <1>1, <1>4, <1>5, <1>6, <1>7, TableStep

LEMMA RemoveDirInv == ASSUME Inv, NEW m \in Hosts, RemoveDir(m) PROVE Inv' /\ Kept
<1> DEFINE p == job[m].pack
           d == [dir[m] EXCEPT ![p] = NoDir]
<1>1. /\ job[m].at = "rmdir" /\ p \in Packs /\ Dirs(dir[m])
      /\ remote' = remote /\ list' = list /\ count' = count /\ odd' = odd /\ row' = row
      /\ job' = [job EXCEPT ![m] = Idle]
  BY Host DEF RemoveDir, Is, HostOK, Job, Busy
<1>2. NoDir \in DirType /\ DirOK(NoDir)
  BY NoDirType
<1>3. dir' = [dir EXCEPT ![m] = d]
  BY Host DEF RemoveDir, Pack
<1> HIDE DEF NoDir
<1>4. Dirs(d) /\ \A q \in Packs : q # p => d[q] = dir[m][q]
  BY <1>1, <1>2, OneDir
<1> HIDE DEF d
<1>5. Job(Idle, row[m], d)
  BY IdleJob
<1>6. Keeps(m, d)
  BY <1>1, <1>4 DEF Keeps, Is, Pack
<1> QED
  BY <1>1, <1>3, <1>4, <1>5, <1>6, DirStep

-----------------------------------------------------------------------------
(* The beginnings of commands.                                              *)

LEMMA CommandCount ==
  ASSUME NEW m \in Hosts, Command(m) PROVE count'.published = count.published
  BY DEF Command, Spend

\* A host that begins a command has no job that minds.
LEMMA Begins ==
  ASSUME Inv, NEW m \in Hosts, NEW p \in Packs, Command(m),
         NEW do \in {"install", "enable", "disable", "upgrade", "remove"},
         NEW at \in Quiet \cup {"status"}, Start(m, do, at, p)
  PROVE  /\ count'.published = count.published
         /\ \E j \in JobType : /\ job' = [job EXCEPT ![m] = j] /\ j.at = at /\ j.pack = p
                               /\ \A r, d : Job(j, r, d)
<1> DEFINE j == [Idle EXCEPT !.do = do, !.at = at, !.pack = p]
<1>1. j \in JobType /\ j.at = at /\ j.pack = p
  <2>1. Idle \in JobType
    BY IdleJob
  <2>2. do \in {"nothing", "install", "enable", "disable", "upgrade", "remove", "sync"}
    OBVIOUS
  <2>3. at \in {"idle", "refresh", "done"} \cup Busy
    BY DEF Quiet, Busy
  <2> HIDE DEF Idle
  <2> QED
    BY <2>1, <2>2, <2>3 DEF JobType
<1>2. job' = [job EXCEPT ![m] = j]
  BY DEF Start
<1> HIDE DEF j
<1>3. \A r, d : Job(j, r, d)
  BY <1>1 DEF Job, Quiet, Forcing
<1>4. count'.published = count.published
  BY CommandCount
<1> QED
  BY <1>1, <1>2, <1>3, <1>4

LEMMA DownloadInv ==
  ASSUME Inv, NEW m \in Hosts, NEW p \in Packs, DownloadNewPack(m, p)
  PROVE  Inv' /\ Kept
<1>1. /\ count'.published = count.published
      /\ \E j \in JobType : job' = [job EXCEPT ![m] = j] /\ \A r, d : Job(j, r, d)
  BY Begins DEF DownloadNewPack, Quiet
<1> QED
  BY <1>1, JobStep DEF DownloadNewPack

\* The row of p changes, and whether p is in the list.
LEMMA ToggleInv ==
  ASSUME Inv, NEW m \in Hosts, NEW p \in Packs,
         EnablePack(m, p) \/ DisablePack(m, p) \/ RemovePack(m, p)
  PROVE  Inv' /\ Kept
<1>1. /\ dir' = dir /\ remote' = remote /\ count'.published = count.published
      /\ Rows(row[m], list[m]) /\ list[m] \subseteq Packs
  <2>1. count'.published = count.published
    BY CommandCount DEF EnablePack, DisablePack, RemovePack
  <2> QED
    BY <2>1, Host DEF EnablePack, DisablePack, RemovePack, HostOK
<1>2. row[m][p] \in RowType /\ RowOK(row[m][p], p \in list[m])
  BY <1>1 DEF Rows
<1>3. PICK j : job' = [job EXCEPT ![m] = j] /\ \A r, d : Job(j, r, d)
  BY Begins DEF EnablePack, DisablePack, RemovePack, Quiet
<1>4. PICK o : o \subseteq Packs /\ odd' = [odd EXCEPT ![m] = o]
  <2>1. odd' = odd \/ Mishap(m, p)
    BY DEF EnablePack, DisablePack, RemovePack
  <2> QED
    BY <2>1, OddStep
<1>5. ASSUME NEW x \in RowType, NEW l, l \subseteq Packs, RowOK(x, p \in l),
             \A q \in Packs : q # p => (q \in list[m] => q \in l),
             row' = [row EXCEPT ![m] = [row[m] EXCEPT ![p] = x]], list' = [list EXCEPT ![m] = l]
      PROVE  Inv' /\ Kept
  <2> DEFINE r == [row[m] EXCEPT ![p] = x]
  <2>1. Rows(r, l)
    BY <1>1, <1>5, OneRow
  <2>2. row' = [row EXCEPT ![m] = r]
    BY <1>5
  <2> HIDE DEF r
  <2> QED
    BY <1>1, <1>3, <1>4, <1>5, <2>1, <2>2, TableStep
<1>6. CASE EnablePack(m, p)
  <2> DEFINE x == [row[m][p] EXCEPT !.enabled = row[m][p].in]
             l == list[m] \ {p}
  <2>1. x \in RowType /\ RowOK(x, p \in l)
    BY <1>2 DEF RowType, RowOK
  <2>2. row' = [row EXCEPT ![m] = [row[m] EXCEPT ![p] = x]] /\ list' = [list EXCEPT ![m] = l]
    BY <1>6, Host DEF EnablePack
  <2> HIDE DEF x
  <2> QED
    BY <1>1, <1>5, <2>1, <2>2
<1>7. CASE DisablePack(m, p)
  <2> DEFINE x == [row[m][p] EXCEPT !.enabled = FALSE]
             l == list[m] \cup {p}
  <2>1. x \in RowType /\ RowOK(x, p \in l)
    BY <1>2 DEF RowType, RowOK
  <2>2. row' = [row EXCEPT ![m] = [row[m] EXCEPT ![p] = x]] /\ list' = [list EXCEPT ![m] = l]
    BY <1>7, Host DEF DisablePack
  <2> HIDE DEF x
  <2> QED
    BY <1>1, <1>5, <2>1, <2>2
<1>8. CASE RemovePack(m, p)
  <2>1. NoRow \in RowType /\ RowOK(NoRow, p \in list[m])
    BY CommitFacts DEF NoRow, RowType, RowOK
  <2> HIDE DEF NoRow
  <2>2. row' = [row EXCEPT ![m] = [row[m] EXCEPT ![p] = NoRow]]
    BY <1>8, Host DEF RemovePack
  <2>3. list' = [list EXCEPT ![m] = list[m]]
    BY <1>8, Host DEF RemovePack
  <2> QED
    BY <1>1, <1>5, <2>1, <2>2, <2>3
<1> QED
  BY <1>6, <1>7, <1>8

\* The directory of p changes, and loses no edits.
LEMMA DirChange ==
  ASSUME Inv, NEW m \in Hosts, NEW p \in Packs, NEW x \in DirType, DirOK(x),
         dir[m][p].edited => x.edited, dir' = [dir EXCEPT ![m][p] = x],
         NEW j, job' = [job EXCEPT ![m] = j], \A r, d : Job(j, r, d),
         row' = row, list' = list, Mishap(m, p), remote' = remote,
         count'.published = count.published
  PROVE  Inv' /\ Kept
<1> DEFINE d == [dir[m] EXCEPT ![p] = x]
<1>1. dir' = [dir EXCEPT ![m] = d]
  BY Host
<1>2. /\ Dirs(d) /\ d[p] = x /\ \A q \in Packs : q # p => d[q] = dir[m][q]
  BY Host, OneDir DEF HostOK
<1> HIDE DEF d
<1>3. PICK o : o \subseteq Packs /\ odd' = [odd EXCEPT ![m] = o]
  BY OddStep
<1>4. HostOK(row[m], d, list[m], o, j)
  BY <1>2, <1>3, Host DEF HostOK
<1>5. row' = [row EXCEPT ![m] = row[m]]
  BY Host
<1>6. list' = [list EXCEPT ![m] = list[m]]
  BY Host
<1>7. Keeps(m, d)
  BY <1>2 DEF Keeps
<1> QED
  BY <1>1, <1>3, <1>4, <1>5, <1>6, <1>7, HostStep

LEMMA UpgradeInv ==
  ASSUME Inv, NEW m \in Hosts, NEW p \in Packs, UpgradePack(m, p)
  PROVE  Inv' /\ Kept
<1>1. row' = row /\ list' = list /\ remote' = remote /\ Command(m)
  BY DEF UpgradePack
<1>2. /\ count'.published = count.published
      /\ \E j : job' = [job EXCEPT ![m] = j] /\ \A r, d : Job(j, r, d)
  <2>1. CASE Start(m, "upgrade", "refresh", p)
    BY <1>1, <2>1, Begins DEF Quiet
  <2>2. CASE Start(m, "upgrade", "status", p)
    BY <1>1, <2>2, Begins DEF Quiet
  <2> QED
    BY <2>1, <2>2 DEF UpgradePack
<1>3. CASE dir' = dir /\ odd' = odd
  BY <1>1, <1>2, <1>3, JobStep
<1>4. CASE /\ dir[m][p].branch # None /\ Mishap(m, p)
           /\ dir' = [dir EXCEPT ![m][p].tree = dir[m][p].branch]
  <2> DEFINE x == [dir[m][p] EXCEPT !.tree = dir[m][p].branch]
  <2>1. x \in DirType /\ DirOK(x)
    <3>1. dir[m][p] \in DirType /\ DirOK(dir[m][p])
      BY Host DEF HostOK, Dirs
    <3>2. dir[m][p].there
      BY <1>4, <3>1 DEF DirOK, NoDir
    <3> QED
      BY <1>4, <3>1, <3>2 DEF DirType, DirOK
  <2>2. dir' = [dir EXCEPT ![m][p] = x]
    BY <1>4
  <2>3. dir[m][p].edited => x.edited
    BY Host DEF HostOK, Dirs, DirType
  <2> HIDE DEF x
  <2> QED
    BY <1>1, <1>2, <1>4, <2>1, <2>2, <2>3, DirChange
<1> QED
  BY <1>3, <1>4 DEF UpgradePack

LEMMA EditInv ==
  ASSUME Inv, NEW m \in Hosts, NEW p \in Packs, Edit(m, p)
  PROVE  Inv' /\ Kept
<1> DEFINE x == [dir[m][p] EXCEPT !.edited = TRUE]
           d == [dir[m] EXCEPT ![p] = x]
<1>1. /\ row' = row /\ list' = list /\ remote' = remote
      /\ count'.published = count.published /\ Mishap(m, p) /\ dir[m][p].tree # None
  BY DEF Edit, Spend
<1>2. dir[m][p] \in DirType /\ DirOK(dir[m][p]) /\ dir[m][p].there
  <2>1. dir[m][p] \in DirType /\ DirOK(dir[m][p])
    BY Host DEF HostOK, Dirs
  <2> QED
    BY <1>1, <2>1 DEF DirOK, NoDir
<1>3. /\ x \in DirType /\ DirOK(x) /\ x.edited /\ x.there
      /\ x.tree = dir[m][p].tree
  BY <1>1, <1>2 DEF DirType, DirOK
<1>4. dir' = [dir EXCEPT ![m] = d]
  BY Host DEF Edit
<1> HIDE DEF x
<1>5. /\ Dirs(d) /\ d[p] = x /\ \A q \in Packs : q # p => d[q] = dir[m][q]
  BY <1>3, Host, OneDir DEF HostOK
<1> HIDE DEF d
<1>6. PICK j : /\ job' = [job EXCEPT ![m] = j] /\ Job(j, row[m], d)
  <2>1. Job(job[m], row[m], dir[m]) /\ job[m] \in JobType
    BY Host DEF HostOK, Job
  <2>2. CASE Pack(m) = p /\ job[m].at \in Forcing
    <3> DEFINE j == [job[m] EXCEPT !.raced = TRUE]
    <3>1. job' = [job EXCEPT ![m] = j]
      BY <2>2, Host DEF Edit
    <3>2. j \in JobType /\ j.at = job[m].at /\ j.pack = job[m].pack /\ j.raced
      BY <2>1 DEF JobType
    <3> HIDE DEF j
    <3>3. Job(j, row[m], d)
      BY <1>1, <1>3, <1>5, <2>1, <2>2, <3>2 DEF Job, Pack, Forcing
    <3> QED
      BY <3>1, <3>3
  <2>3. CASE ~(Pack(m) = p /\ job[m].at \in Forcing)
    <3>1. job' = [job EXCEPT ![m] = job[m]]
      BY <2>3, Host DEF Edit
    <3>2. job[m].at \in Forcing \cup {"cloneFiles"} => job[m].at \in Busy
      BY DEF Forcing, Busy
    <3>3. Job(job[m], row[m], d)
      BY <1>1, <1>3, <1>5, <2>1, <2>3, <3>2 DEF Job, Pack
    <3> QED
      BY <3>1, <3>3
  <2> QED
    BY <2>2, <2>3
<1>7. PICK o : o \subseteq Packs /\ odd' = [odd EXCEPT ![m] = o]
  BY <1>1, OddStep
<1>8. HostOK(row[m], d, list[m], o, j)
  BY <1>5, <1>6, <1>7, Host DEF HostOK
<1>9. row' = [row EXCEPT ![m] = row[m]]
  BY <1>1, Host
<1>10. list' = [list EXCEPT ![m] = list[m]]
  BY <1>1, Host
<1>11. Keeps(m, d)
  BY <1>3, <1>5 DEF Keeps
<1> QED
  BY <1>1, <1>4, <1>6, <1>7, <1>8, <1>9, <1>10, <1>11, HostStep

-----------------------------------------------------------------------------
(* The synchronisation, and what happens around.                            *)

LEMMA LoadSummaryInv == ASSUME Inv, LoadSummary PROVE Inv' /\ Kept
<1> DEFINE m == Client
           r == [p \in Packs |-> [row[m][p] EXCEPT !.enabled = FALSE]]
           l == list[m] \cup {p \in Packs : row[m][p].in}
           j == [Idle EXCEPT !.do = "sync", !.summary = Summary(Server), !.todo = Summary(Server)]
<1>1. /\ dir' = dir /\ odd' = odd /\ remote' = remote /\ count'.published = count.published
      /\ m \in Hosts /\ Rows(row[m], list[m]) /\ list[m] \subseteq Packs /\ odd[m] \subseteq Packs
  BY Host DEF LoadSummary, Hosts, HostOK
<1>2. row' = [row EXCEPT ![m] = r] /\ list' = [list EXCEPT ![m] = l]
  BY <1>1, Host DEF LoadSummary
<1>3. j \in JobType
  <2>1. Summary(Server) \subseteq Entries
    <3>1. Rows(row[Server], list[Server])
      BY Host DEF Hosts, HostOK
    <3>2. \A p \in Packs : row[Server][p].hash \in Hashes
      BY <3>1 DEF Rows, RowType
    <3> QED
      BY <3>2 DEF Summary, Entries
  <2>2. Idle \in JobType
    BY IdleJob
  <2> HIDE DEF Idle
  <2> QED
    BY <2>1, <2>2 DEF JobType
<1>4. Rows(r, l) /\ \A p \in Packs : row[m][p].in => r[p].in
  <2>1. ASSUME NEW p \in Packs
        PROVE  LET x == [row[m][p] EXCEPT !.enabled = FALSE]
               IN x \in RowType /\ RowOK(x, p \in l) /\ x.in = row[m][p].in
    <3>1. row[m][p] \in RowType /\ RowOK(row[m][p], p \in list[m])
      BY <1>1 DEF Rows
    <3> QED
      BY <3>1 DEF RowType, RowOK
  <2> QED
    BY <2>1 DEF Rows
<1>5. NextPack(m, j)
  BY DEF LoadSummary
<1> HIDE DEF j, r
<1>6. PICK k : job' = [job EXCEPT ![m] = k] /\ Job(k, r, dir[m])
  BY <1>1, <1>3, <1>4, <1>5, NextJobOK
<1>7. odd' = [odd EXCEPT ![m] = odd[m]] /\ l \subseteq Packs
  BY <1>1, Host
<1> HIDE DEF l
<1>8. /\ m \in Hosts /\ Rows(r, l) /\ odd[m] \subseteq Packs
      /\ dir' = dir /\ remote' = remote /\ count'.published = count.published
  BY <1>1, <1>4
<1> QED
  BY <1>2, <1>6, <1>7, <1>8, TableStep

LEMMA EnableSyncedInv == ASSUME Inv, EnableSynced PROVE Inv' /\ Kept
<1> DEFINE m == Client
           p == job[m].pack
           x == [row[m][p] EXCEPT !.hash = job[m].want, !.enabled = TRUE]
           r == [row[m] EXCEPT ![p] = x]
           l == list[m] \ {p}
<1>1. /\ job[m].at = "enable" /\ job[m].at \in Busy /\ p \in Packs /\ job[m] \in JobType
      /\ row[m][p].in /\ m \in Hosts
      /\ Rows(row[m], list[m]) /\ list[m] \subseteq Packs /\ odd[m] \subseteq Packs
      /\ remote' = remote /\ dir' = dir /\ count' = count /\ odd' = odd
  BY Host DEF EnableSynced, Is, Hosts, HostOK, Job, Busy
<1>2. x \in RowType /\ RowOK(x, p \in l) /\ x.in
  <2>1. row[m][p] \in RowType
    BY <1>1 DEF Rows
  <2>2. job[m].want \in Hashes
    BY <1>1 DEF JobType
  <2> QED
    BY <1>1, <2>1, <2>2 DEF RowType, RowOK
<1>3. row' = [row EXCEPT ![m] = r] /\ list' = [list EXCEPT ![m] = l]
  <2> DEFINE y  == [row[m][p] EXCEPT !.hash = job[m].want]
             r1 == [row[m] EXCEPT ![p] = y]
             w1 == [row EXCEPT ![m] = r1]
  <2>1. row' = [w1 EXCEPT ![m] = [w1[m] EXCEPT ![p] = [w1[m][p] EXCEPT !.enabled = TRUE]]]
    BY DEF EnableSynced, Pack
  <2>2. OfHosts(row) /\ row[m] \in [Packs -> RowType]
    BY <1>1 DEF Inv, Rows
  <2> DEFINE z == [y EXCEPT !.enabled = TRUE]
  <2>3. z = x
    <3>1. row[m][p] \in RowType
      BY <1>1, <2>2
    <3> QED
      BY <3>1 DEF RowType
  <2> HIDE DEF x, y
  <2>4. r1[p] = y /\ [r1 EXCEPT ![p] = z] = [row[m] EXCEPT ![p] = z]
    BY <1>1, <2>2
  <2> HIDE DEF r1
  <2>5. w1[m] = r1 /\ \A v : [w1 EXCEPT ![m] = v] = [row EXCEPT ![m] = v]
    BY <1>1, <2>2 DEF OfHosts
  <2> HIDE DEF w1
  <2>6. row' = [w1 EXCEPT ![m] = [r1 EXCEPT ![p] = z]]
    BY <2>1, <2>4, <2>5
  <2>7. row' = [row EXCEPT ![m] = [row[m] EXCEPT ![p] = x]]
    BY <2>3, <2>4, <2>5, <2>6
  <2>8. list' = [list EXCEPT ![m] = l]
    BY <1>1, Host DEF EnableSynced, Pack
  <2> QED
    BY <2>7, <2>8
<1> HIDE DEF x
<1>4. Rows(r, l) /\ \A q \in Packs : row[m][q].in => r[q].in
  <2>1. Rows(r, l)
    BY <1>1, <1>2, OneRow
  <2> QED
    BY <1>1, <1>2, <2>1 DEF Rows
<1>5. odd' = [odd EXCEPT ![m] = odd[m]] /\ l \subseteq Packs
  BY <1>1, Host
<1> HIDE DEF r, l
<1>6. /\ m \in Hosts /\ Rows(r, l) /\ odd[m] \subseteq Packs
      /\ dir' = dir /\ remote' = remote /\ count'.published = count.published
  BY <1>1, <1>4
<1>7. CASE NextPack(m, job[m])
  <2>1. PICK k : job' = [job EXCEPT ![m] = k] /\ Job(k, r, dir[m])
    BY <1>1, <1>4, <1>7, NextJobOK
  <2> QED
    BY <1>3, <1>5, <1>6, <2>1, TableStep
<1>8. CASE Go(m, "status")
  <2> DEFINE j == [job[m] EXCEPT !.at = "status"]
  <2>1. j \in JobType /\ j.at = "status" /\ j.pack = p
    BY <1>1, GoJob DEF Busy
  <2>2. job' = [job EXCEPT ![m] = j]
    BY <1>1, <1>8, Host DEF Go
  <2> HIDE DEF j
  <2>3. Job(j, r, dir[m])
    BY <1>1, <2>1, QuietJob DEF Quiet
  <2> QED
    BY <1>3, <1>5, <1>6, <2>2, <2>3, TableStep
<1> QED
  BY <1>7, <1>8 DEF EnableSynced

LEMMA DownloadCompleteInv == ASSUME Inv, DownloadComplete PROVE Inv' /\ Kept
<1>1. Client \in Hosts
  BY DEF Hosts
<1> QED
  BY <1>1, IdleJob, JobStep DEF DownloadComplete

\* What a crash leaves of the directory in hand.
LEMMA LeftType ==
  ASSUME Inv, NEW m \in Hosts, job[m].at \in Writing, NEW x \in Left(m)
  PROVE  /\ x \in DirType /\ DirOK(x)
         /\ dir[m][job[m].pack].edited /\ ~x.edited => Is(m, "rmdir") \/ job[m].raced
<1> DEFINE d == dir[m][Pack(m)]
<1>1. job[m].at \in Busy
  BY DEF Writing, Busy
<1>2. /\ d \in DirType /\ DirOK(d) /\ Pack(m) = job[m].pack
      /\ job[m].at \in Forcing => d.there /\ (d.edited => job[m].raced)
      /\ job[m].at = "cloneFiles" => d.there /\ ~d.edited
  BY <1>1, Hand DEF DirOK
<1> HIDE DEF d
<1>3. CASE Is(m, "clone")
  <2>1. x \in {d, [d EXCEPT !.there = TRUE]}
    BY <1>3 DEF Left, d, Is
  <2>0. d.there => [d EXCEPT !.there = TRUE] = d
    BY <1>2 DEF DirType
  <2>5. x = d \/ (~d.there /\ x = [d EXCEPT !.there = TRUE])
    BY <2>0, <2>1
  <2>2. ~d.there => d = NoDir
    BY <1>2 DEF DirOK
  <2>3. [NoDir EXCEPT !.there = TRUE] \in DirType /\ DirOK([NoDir EXCEPT !.there = TRUE])
    BY CommitFacts DEF NoDir, DirType, DirOK
  <2>4. x.edited = d.edited
    BY <1>2, <2>5 DEF DirType
  <2> QED
    BY <1>2, <2>5, <2>2, <2>3, <2>4 DEF d
<1>4. CASE Is(m, "rmdir")
  <2>1. x = d \/ x = [NoDir EXCEPT !.there = TRUE, !.tree = Mixed]
    BY <1>4 DEF Left, d, Is
  <2>2. LET y == [NoDir EXCEPT !.there = TRUE, !.tree = Mixed] IN y \in DirType /\ DirOK(y)
    BY CommitFacts DEF NoDir, DirType, DirOK, Mixed, None
  <2> QED
    BY <1>2, <1>4, <2>1, <2>2
<1>5. CASE ~Is(m, "clone") /\ ~Is(m, "rmdir")
  <2>1. x \in Torn(d)
    BY <1>5 DEF Left, d
  <2>2. job[m].at \in Forcing \/ job[m].at = "cloneFiles"
    BY <1>5 DEF Writing, Forcing, Is
  <2>3. x \in DirType /\ DirOK(x)
    BY <1>2, <2>1, <2>2, TornType
  <2> QED
    BY <1>2, <2>2, <2>3 DEF d
<1> QED
  BY <1>3, <1>4, <1>5

LEMMA RestartInv == ASSUME Inv, NEW m \in Hosts, Restart(m) PROVE Inv' /\ Kept
<1> DEFINE l == DisabledRows(m)
<1>1. /\ row' = row /\ remote' = remote /\ count'.published = count.published
      /\ job' = [job EXCEPT ![m] = Idle] /\ list' = [list EXCEPT ![m] = l]
      /\ row' = [row EXCEPT ![m] = row[m]] /\ Rows(row[m], list[m])
  BY Host DEF Restart, HostOK
<1>2. Rows(row[m], l) /\ l \subseteq Packs
  BY <1>1 DEF Rows, RowOK, DisabledRows
<1> HIDE DEF l
<1>3. \A d : Job(Idle, row[m], d)
  BY IdleJob
<1>4. CASE job[m].at \notin Writing /\ dir' = dir
  <2>1. PICK o : o \subseteq Packs /\ odd' = [odd EXCEPT ![m] = o]
    <3>1. CASE job[m].at \in {"insert", "record"} /\ Mishap(m, Pack(m))
      <4>1. job[m].at \in Busy
        BY <3>1 DEF Busy
      <4>2. Pack(m) \in Packs
        BY <4>1, Hand
      <4> QED
        BY <3>1, <4>2, OddStep
    <3>2. CASE odd' = odd
      BY <3>2, Host DEF HostOK
    <3> QED
      BY <1>4, <3>1, <3>2 DEF Restart
  <2> QED
    BY <1>1, <1>2, <1>3, <1>4, <2>1, TableStep
<1>5. CASE job[m].at \in Writing /\ \E x \in Left(m) :
             /\ Becomes(m, x)
             /\ IF Is(m, "rmdir") \/ x.tree = Mixed THEN Mishap(m, Pack(m)) ELSE odd' = odd
  <2>1. job[m].at \in Busy
    BY <1>5 DEF Writing, Busy
  <2>2. PICK x \in Left(m) : Becomes(m, x) /\ (odd' = odd \/ Mishap(m, job[m].pack))
    BY <1>5 DEF Pack
  <2>3. /\ x \in DirType /\ DirOK(x)
        /\ dir[m][job[m].pack].edited /\ ~x.edited => Is(m, "rmdir") \/ job[m].raced
    BY <1>5, LeftType
  <2> QED
    BY <1>1, <1>2, <1>3, <2>1, <2>2, <2>3, HandStep
<1> QED
  BY <1>4, <1>5 DEF Restart

LEMMA PublishInv == ASSUME Inv, NEW p \in Packs, Publish(p) PROVE Inv' /\ Kept
<1>1. /\ row' = row /\ dir' = dir /\ list' = list /\ job' = job /\ odd' = odd
      /\ remote' = [remote EXCEPT ![p] = @ + 1]
      /\ count'.published = count.published + 1 /\ count.published < MaxPublished
      /\ MaxPublished \in Nat
  BY PackagesConstants DEF Publish
<1>2. Published'
  <2>1. \A q \in Packs : remote[q] \in Nat \ {0} /\ remote[q] <= count.published + 1
    BY PackagesConstants DEF Inv, Published, Commits
  <2>2. \A q \in Packs : remote[q] + 1 \in Commits
    BY <1>1, <2>1 DEF Inv, Published, Commits
  <2> QED
    BY <1>1, <2>1, <2>2 DEF Inv, Published
<1>3. Kept
  BY <1>1 DEF Kept
<1> QED
  BY <1>1, <1>2, <1>3 DEF Inv, OfHosts

-----------------------------------------------------------------------------
(* The invariant of the specification.                                      *)

LEMMA InitInv == ASSUME Init PROVE Inv
<1>1. PICK here \in SUBSET Packs :
        /\ row = [m \in Hosts |-> [p \in Packs |->
             IF m = Server /\ p \in here THEN [in |-> TRUE, hash |-> 1, enabled |-> TRUE] ELSE NoRow]]
        /\ dir = [m \in Hosts |-> [p \in Packs |->
             IF m = Server /\ p \in here THEN Forced(Cloned(1)) ELSE NoDir]]
  BY DEF Init
<1>2. [in |-> TRUE, hash |-> 1, enabled |-> TRUE] \in RowType /\ NoRow \in RowType /\ ~NoRow.in
      /\ ~NoRow.enabled /\ NoRow.hash = None
  BY CommitFacts DEF RowType, NoRow
<1>3. NoDir \in DirType /\ DirOK(NoDir)
  BY NoDirType
<1>4. Forced(Cloned(1)) \in DirType /\ DirOK(Forced(Cloned(1)))
  BY CommitFacts, CloneType, ForcedType
<1>5. \A m \in Hosts : Rows(row[m], list[m])
  BY <1>1, <1>2 DEF Rows, RowOK
<1>6. \A m \in Hosts : Dirs(dir[m])
  BY <1>1, <1>3, <1>4 DEF Dirs
<1>7. /\ list = [m \in Hosts |-> {}] /\ odd = [m \in Hosts |-> {}]
      /\ job = [m \in Hosts |-> Idle]
  BY DEF Init
<1>8. Published
  <2>1. count.published = 0
    BY DEF Init
  <2> QED
    BY <2>1, CommitFacts, PackagesConstants DEF Published, Init
<1>9. \A m \in Hosts : HostOK(row[m], dir[m], list[m], odd[m], job[m])
  BY <1>5, <1>6, <1>7, IdleJob DEF HostOK
<1>10. /\ OfHosts(row) /\ OfHosts(dir) /\ OfHosts(list) /\ OfHosts(odd) /\ OfHosts(job)
  BY <1>1, <1>7 DEF OfHosts
<1> QED
  BY <1>8, <1>9, <1>10 DEF Inv

LEMMA NextInv == ASSUME Inv, [Next]_vars PROVE Inv' /\ Kept
<1>1. CASE UNCHANGED vars
  BY <1>1 DEF vars, Kept, Inv, Published
<1>2. ASSUME NEW m \in Hosts,
             \/ Clone(m) \/ CloneFiles(m) \/ Insert(m) \/ CheckStatus(m)
             \/ Pull(m) \/ PullFiles(m) \/ Checkout(m) \/ CheckoutFiles(m)
             \/ Refresh(m) \/ Record(m) \/ RemoveDir(m) \/ Restart(m)
      PROVE  Inv' /\ Kept
  BY <1>2, CloneInv, CloneFilesInv, InsertInv, CheckStatusInv, PullInv, PullFilesInv,
     CheckoutInv, CheckoutFilesInv, RefreshInv, RecordInv, RemoveDirInv, RestartInv
<1>3. ASSUME NEW m \in Hosts, NEW p \in Packs,
             \/ DownloadNewPack(m, p) \/ EnablePack(m, p) \/ DisablePack(m, p)
             \/ UpgradePack(m, p) \/ RemovePack(m, p) \/ Edit(m, p)
      PROVE  Inv' /\ Kept
  BY <1>3, DownloadInv, ToggleInv, UpgradeInv, EditInv
<1>4. CASE LoadSummary \/ EnableSynced \/ DownloadComplete
  BY <1>4, LoadSummaryInv, EnableSyncedInv, DownloadCompleteInv
<1>5. CASE \E p \in Packs : Publish(p)
  BY <1>5, PublishInv
<1> QED
  BY <1>1, <1>2, <1>3, <1>4, <1>5 DEF Next

\* Every value of the state has its type, whatever is installed, synchronised
\* and cut off by a crash: a row that is gone is the empty row, a package that
\* is disabled in packages.db is in disabled_packs (packman.cpp:24-31), and
\* what has no directory has no HEAD, no files and no changes.
THEOREM Typing == Spec => []TypeOK
<1>1. Init => Inv
  BY InitInv
<1>2. Inv /\ [Next]_vars => Inv'
  BY NextInv
<1>3. Inv => TypeOK
  BY InvType
<1> QED
  BY <1>1, <1>2, <1>3, PTL DEF Spec

\* Changes that somebody made by hand to the files of a package are lost only
\* when the package is removed, or when they were made while a command for
\* this very package was between its status and its last forced checkout
\* (packman.cpp:172-319 and 345, 194-319): whatever there was before, and
\* whatever is changed in any other package at any time, survives every
\* command, failure and crash, although every checkout is forced.
THEOREM Edits == Spec => EditsSurvive
<1>1. Init => Inv
  BY InitInv
<1>2. Inv /\ [Next]_vars => Inv' /\ Kept
  BY NextInv
<1>3. Kept => [\A m \in Hosts, p \in Packs :
                 dir[m][p].edited /\ ~dir'[m][p].edited
                   => Pack(m) = p /\ (Is(m, "rmdir") \/ job[m].raced)]_vars
  BY DEF Kept
<1> QED
  BY <1>1, <1>2, <1>3, PTL DEF Spec, EditsSurvive

-----------------------------------------------------------------------------
(* What the MD5 counts.  Table, directory and list of a host agree on every *)
(* package without a mishap, but for the one its job is busy with; a        *)
(* synchronisation has put right what it has done, and not touched the rest.*)

Arriving(m, p) == Pack(m) = p /\ Is(m, "insert") /\ job[m].cloned = "yes"
Leaving(m, p)  == Pack(m) = p /\ Is(m, "rmdir")
Halfway(m, p)  == Pack(m) = p /\ job[m].at \in {"cloneFiles", "pullFiles", "checkoutFiles"}
Written(m, p)  == (Pack(m) = p /\ Is(m, "record")) \/ Arriving(m, p)
Agreed(m, p) ==
  /\ ~dir[m][p].edited
  /\ dir[m][p].tree = dir[m][p].head \/ (dir[m][p].cut /\ ~Written(m, p)) \/ Halfway(m, p)
  /\ row[m][p].in => dir[m][p].tree # None
  /\ row[m][p].enabled => p \notin list[m]
  /\ ~row[m][p].in => dir[m][p].tree = None \/ Arriving(m, p) \/ Leaving(m, p)
  /\ Arriving(m, p) \/ Leaving(m, p) \/ (Pack(m) = p /\ Is(m, "cloneFiles")) => ~row[m][p].in
  /\ Pack(m) = p /\ job[m].at \in Forcing \cup {"record"} => row[m][p].in
  /\ Pack(m) = p /\ Is(m, "status") => row[m][p].in \/ dir[m][p].head # None
\* No hash that is written down is that of no repository.
Headed == {"cloneFiles", "pullFiles", "checkout", "checkoutFiles", "record"}
Hashed(m) ==
  /\ \A p \in Packs : row[m][p].in => row[m][p].hash # None
  /\ job[m].at \in Headed \/ (Is(m, "insert") /\ job[m].cloned = "yes")
       => dir[m][Pack(m)].head # None
  /\ Is(m, "enable") => job[m].want # None
  /\ \A e \in job[m].summary : e.hash # None

\* A server does not synchronise: it has what its table says.
Held(p) == row[Server][p].in /\ ~(Is(Server, "record") /\ Pack(Server) = p)
             => row[Server][p].hash = dir[Server][p].tree
OnlySync == {"enable", "checkout", "checkoutFiles"}
NoSync == job[Server].do # "sync" /\ job[Server].at \notin OnlySync \cup {"done"}

Updating     == {"status"} \cup Forcing
Syncing      == {"clone", "cloneFiles", "insert", "enable"} \cup Updating
InHand(p)    == Pack(Client) = p /\ job[Client].at \in Syncing
InSummary(p) == \E e \in job[Client].summary : e.pack = p
ToDo(p)      == \E e \in job[Client].todo : e.pack = p
\* The summary names a package once; what is in hand is no longer to do.
Agenda ==
  LET j == job[Client] IN
  /\ \A e, f \in j.summary : e.pack = f.pack => e = f
  /\ j.todo \subseteq j.summary
  /\ j.at = "done" => j.do = "sync" /\ j.todo = {}
  /\ j.at \in OnlySync => j.do = "sync"
  /\ j.do = "sync" => j.at \in Syncing \cup {"done"}
  /\ j.do = "sync" /\ j.at # "done" =>
       [pack |-> j.pack, hash |-> j.want] \in j.summary \ j.todo
Untouched(p) == p \in list[Client] \/ dir[Client][p].tree = None
Delivered(p) == /\ p \notin list[Client]
                /\ \E e \in job[Client].summary : e.pack = p /\ e.hash = dir[Client][p].head
Synced(p) ==
  job[Client].do = "sync" /\ job[Client].ok =>
    /\ InHand(p) /\ job[Client].at \in Updating => p \notin list[Client]
    /\ InHand(p) /\ Is(Client, "checkoutFiles") => dir[Client][p].head = job[Client].want
    /\ InSummary(p) /\ ~ToDo(p) /\ ~InHand(p) => Delivered(p)
    /\ ~InHand(p) /\ (ToDo(p) \/ ~InSummary(p)) => Untouched(p)

Alike(m) == /\ Hashed(m) /\ \A p \in Packs \ odd[m] : Agreed(m, p)
            /\ m = Server => NoSync /\ \A p \in Packs \ odd[Server] : Held(p)
            /\ m = Client => Agenda /\ \A p \in Packs \ odd[Client] : Synced(p)
Sums == \A m \in Hosts : Alike(m)

\* The types of a host, and what a step of another one leaves alone.
LEMMA Fields ==
  ASSUME Inv, NEW m \in Hosts
  PROVE  /\ row[m] \in [Packs -> RowType] /\ dir[m] \in [Packs -> DirType]
         /\ job[m] \in JobType /\ list[m] \subseteq Packs /\ odd[m] \subseteq Packs
         /\ \A p \in Packs : RowOK(row[m][p], p \in list[m]) /\ DirOK(dir[m][p])
         /\ job[m].at \in Busy => job[m].pack \in Packs
         /\ job[m].at = "enable" => row[m][job[m].pack].in
  BY DEF Inv, HostOK, Rows, Dirs, Job

Still(h) == /\ row'[h] = row[h] /\ dir'[h] = dir[h] /\ list'[h] = list[h]
            /\ odd'[h] = odd[h] /\ job'[h] = job[h]

LEMMA StillAlike == ASSUME NEW h \in Hosts, Alike(h), Still(h) PROVE Alike(h)'
<1>1. /\ Hashed(h)' /\ \A p \in Packs \ odd'[h] : Agreed(h, p)'
  BY DEF Alike, Still, Hashed, Agreed, Arriving, Leaving, Halfway, Written, Is, Pack
<1>2. ASSUME h = Server PROVE NoSync' /\ \A p \in Packs \ odd'[Server] : Held(p)'
  BY <1>2 DEF Alike, Still, NoSync, Held, Is, Pack
<1>3. ASSUME h = Client PROVE Agenda' /\ \A p \in Packs \ odd'[Client] : Synced(p)'
  BY <1>3 DEF Alike, Still, Agenda, Synced, InHand, InSummary, ToDo, Untouched, Delivered, Is, Pack
<1> QED
  BY <1>1, <1>2, <1>3 DEF Alike

LEMMA Local ==
  ASSUME Sums, NEW m \in Hosts, \A h \in Hosts : h # m => Still(h), Alike(m)'
  PROVE  Sums'
  BY StillAlike DEF Sums

\* A step that changes the host m only.
LEMMA OneHost ==
  ASSUME Inv, NEW m \in Hosts,
         row' = row \/ \E x : row' = [row EXCEPT ![m] = x],
         dir' = dir \/ \E x : dir' = [dir EXCEPT ![m] = x],
         list' = list \/ \E x : list' = [list EXCEPT ![m] = x],
         odd' = odd \/ \E x : odd' = [odd EXCEPT ![m] = x],
         job' = job \/ \E x : job' = [job EXCEPT ![m] = x]
  PROVE  \A h \in Hosts : h # m => Still(h)
<1>1. OfHosts(row) /\ OfHosts(dir) /\ OfHosts(list) /\ OfHosts(odd) /\ OfHosts(job)
  BY DEF Inv
<1>2. ASSUME NEW h \in Hosts, h # m
      PROVE  /\ row'[h] = row[h] /\ dir'[h] = dir[h] /\ list'[h] = list[h]
             /\ odd'[h] = odd[h] /\ job'[h] = job[h]
  <2>1. row'[h] = row[h]
    BY <1>1, <1>2 DEF OfHosts
  <2>2. dir'[h] = dir[h]
    BY <1>1, <1>2 DEF OfHosts
  <2>3. list'[h] = list[h]
    BY <1>1, <1>2 DEF OfHosts
  <2>4. odd'[h] = odd[h]
    BY <1>1, <1>2 DEF OfHosts
  <2>5. job'[h] = job[h]
    BY <1>1, <1>2 DEF OfHosts
  <2> QED
    BY <2>1, <2>2, <2>3, <2>4, <2>5
<1> QED
  BY <1>2 DEF Still

-----------------------------------------------------------------------------
(* The fields of the next job.                                              *)

LEMMA GoFields ==
  ASSUME Inv, NEW m \in Hosts, NEW at, Go(m, at)
  PROVE  /\ job'[m].at = at /\ job'[m].pack = job[m].pack /\ job'[m].do = job[m].do
         /\ job'[m].want = job[m].want /\ job'[m].todo = job[m].todo
         /\ job'[m].summary = job[m].summary /\ job'[m].cloned = job[m].cloned
         /\ job'[m].ok = job[m].ok
         /\ \E x : job' = [job EXCEPT ![m] = x]
<1>1. job' = [job EXCEPT ![m] = [job[m] EXCEPT !.at = at]]
  BY Host DEF Go
<1>2. job'[m] = [job[m] EXCEPT !.at = at]
  <2>1. OfHosts(job)
    BY DEF Inv
  <2> QED
    BY <1>1, <2>1 DEF OfHosts
<1>3. \E x : job' = [job EXCEPT ![m] = x]
  <2> DEFINE k == [job[m] EXCEPT !.at = at]
  <2>1. job' = [job EXCEPT ![m] = k]
    BY <1>1
  <2> HIDE DEF k
  <2> QED
    BY <2>1
<1> QED
  BY <1>2, <1>3, Fields DEF JobType

LEMMA OfAll == ASSUME Inv
               PROVE  OfHosts(row) /\ OfHosts(dir) /\ OfHosts(list) /\ OfHosts(odd) /\ OfHosts(job)
  BY DEF Inv

\* The entry that is taken up, or the end of the synchronisation.
Takes(k, j, e, known) ==
  /\ e \in j.todo /\ k.todo = j.todo \ {e} /\ k.pack = e.pack /\ k.want = e.hash
  /\ k.at = IF known THEN "enable" ELSE "clone"
Ends(k, j) == j.todo = {} /\ k.todo = {} /\ k.at = "done"

LEMMA NextFields ==
  ASSUME Inv, NEW m \in Hosts, NEW j \in JobType, NextPack(m, j)
  PROVE  /\ job'[m].do = j.do /\ job'[m].summary = j.summary /\ job'[m].ok = j.ok
         /\ Ends(job'[m], j) \/ \E e \in j.todo : Takes(job'[m], j, e, row[m][e.pack].in)
         /\ \E x : job' = [job EXCEPT ![m] = x]
<1>0. \A x : job' = [job EXCEPT ![m] = x] => job'[m] = x
  BY DEF Inv, OfHosts
<1>1. CASE j.todo = {}
  <2>1. job' = [job EXCEPT ![m] = [j EXCEPT !.at = "done"]]
    BY <1>1 DEF NextPack
  <2>2. job'[m] = [j EXCEPT !.at = "done"]
    BY <1>0, <2>1
  <2>3. \E x : job' = [job EXCEPT ![m] = x]
    <3> DEFINE k == [j EXCEPT !.at = "done"]
    <3>1. job' = [job EXCEPT ![m] = k]
      BY <2>1
    <3> HIDE DEF k
    <3> QED
      BY <3>1
  <2>4. /\ job'[m].do = j.do /\ job'[m].summary = j.summary /\ job'[m].ok = j.ok
        /\ Ends(job'[m], j)
    BY <1>1, <2>2 DEF JobType, Ends
  <2> QED
    BY <2>3, <2>4
<1>2. CASE j.todo # {}
  <2> DEFINE K(e) == [j EXCEPT !.todo = @ \ {e}, !.pack = e.pack, !.want = e.hash,
                               !.cloned = "untried", !.raced = FALSE,
                               !.at = IF row[m][e.pack].in THEN "enable" ELSE "clone"]
  <2>1. PICK e \in j.todo : job' = [job EXCEPT ![m] = K(e)]
    BY <1>2 DEF NextPack
  <2>2. job'[m] = K(e)
    BY <1>0, <2>1
  <2>3. /\ K(e).do = j.do /\ K(e).summary = j.summary /\ K(e).ok = j.ok
        /\ Takes(K(e), j, e, row[m][e.pack].in)
    BY <2>1 DEF JobType, Takes
  <2> HIDE DEF K
  <2> QED
    BY <2>1, <2>2, <2>3
<1> QED
  BY <1>1, <1>2

LEMMA IdleFields ==
  ASSUME Inv, NEW m \in Hosts, job' = [job EXCEPT ![m] = Idle]
  PROVE  job'[m] = Idle
  BY DEF Inv, OfHosts

LEMMA StartFields ==
  ASSUME Inv, NEW m \in Hosts, NEW do, NEW at, NEW p, Start(m, do, at, p)
  PROVE  /\ job'[m].do = do /\ job'[m].at = at /\ job'[m].pack = p /\ job'[m].summary = {}
         /\ job'[m].todo = {} /\ job'[m].cloned = "untried" /\ job'[m].ok
         /\ \E x : job' = [job EXCEPT ![m] = x]
<1>1. job'[m] = [Idle EXCEPT !.do = do, !.at = at, !.pack = p]
  BY DEF Inv, OfHosts, Start
<1>2. \E x : job' = [job EXCEPT ![m] = x]
  BY Zenon DEF Start
<1>3. /\ job'[m].do = do /\ job'[m].at = at /\ job'[m].pack = p /\ job'[m].summary = {}
      /\ job'[m].todo = {} /\ job'[m].cloned = "untried" /\ job'[m].ok
  BY <1>1 DEF Idle
<1> QED
  BY <1>2, <1>3

\* A clone that failed, and one that is complete.
LEMMA ClonedFields ==
  ASSUME Inv, NEW m \in Hosts,
         \/ job' = [job EXCEPT ![m] = Fails(@)]
         \/ job' = [job EXCEPT ![m] = [@ EXCEPT !.at = "insert", !.cloned = "yes"]]
  PROVE  /\ job'[m].at = "insert" /\ job'[m].pack = job[m].pack /\ job'[m].do = job[m].do
         /\ job'[m].want = job[m].want /\ job'[m].todo = job[m].todo
         /\ job'[m].summary = job[m].summary /\ (job'[m].ok => job[m].ok)
         /\ job' = [job EXCEPT ![m] = Fails(@)] => job'[m].cloned = "no"
         /\ \E x : job' = [job EXCEPT ![m] = x]
<1>1. job[m] \in JobType /\ OfHosts(job)
  BY Fields, OfAll
<1>2. CASE job' = [job EXCEPT ![m] = Fails(@)]
  <2> DEFINE k == Fails(job[m])
  <2>1. job' = [job EXCEPT ![m] = k]
    BY <1>2
  <2>2. /\ k.at = "insert" /\ k.pack = job[m].pack /\ k.do = job[m].do
        /\ k.want = job[m].want /\ k.todo = job[m].todo
        /\ k.summary = job[m].summary /\ k.ok = FALSE /\ k.cloned = "no"
    BY <1>1 DEF JobType, Fails, Failed
  <2> HIDE DEF k
  <2>3. job'[m] = k
    BY <1>1, <2>1 DEF OfHosts
  <2> QED
    BY <2>1, <2>2, <2>3
<1>3. CASE job' = [job EXCEPT ![m] = [@ EXCEPT !.at = "insert", !.cloned = "yes"]]
           /\ job' # [job EXCEPT ![m] = Fails(@)]
  <2> DEFINE k == [job[m] EXCEPT !.at = "insert", !.cloned = "yes"]
  <2>1. job' = [job EXCEPT ![m] = k]
    BY <1>3
  <2>2. /\ k.at = "insert" /\ k.pack = job[m].pack /\ k.do = job[m].do
        /\ k.want = job[m].want /\ k.todo = job[m].todo
        /\ k.summary = job[m].summary /\ k.ok = job[m].ok
    BY <1>1 DEF JobType
  <2> HIDE DEF k
  <2>3. job'[m] = k
    BY <1>1, <2>1 DEF OfHosts
  <2> QED
    BY <1>3, <2>1, <2>2, <2>3
<1> QED
  BY <1>2, <1>3

\* A synchronisation goes on with the next package.
LEMMA NextAgenda ==
  ASSUME Inv, NEW j \in JobType, j.do = "sync", NextPack(Client, j),
         \A e, f \in j.summary : e.pack = f.pack => e = f,
         j.todo \subseteq j.summary
  PROVE  Agenda'
<1>0. Client \in Hosts
  BY DEF Hosts
<1>1. /\ job'[Client].do = j.do /\ job'[Client].summary = j.summary
      /\ Ends(job'[Client], j)
           \/ \E e \in j.todo : Takes(job'[Client], j, e, row[Client][e.pack].in)
  BY <1>0, NextFields
<1>2. CASE Ends(job'[Client], j)
  BY <1>1, <1>2 DEF Ends, Agenda, OnlySync, Syncing, Updating, Forcing
<1>3. ASSUME NEW e \in j.todo, Takes(job'[Client], j, e, row[Client][e.pack].in) PROVE Agenda'
  <2>1. e = [pack |-> e.pack, hash |-> e.hash]
    BY DEF JobType, Entries
  <2> QED
    BY <1>1, <1>3, <2>1 DEF Takes, Agenda, OnlySync, Syncing, Updating, Forcing
<1> QED
  BY <1>1, <1>2, <1>3

LEMMA NextSynced ==
  ASSUME Inv, NEW j \in JobType, NextPack(Client, j), NEW p,
         j.ok => /\ (\E e \in j.summary : e.pack = p) /\ ~(\E e \in j.todo : e.pack = p)
                      => /\ p \notin list'[Client]
                         /\ \E e \in j.summary : e.pack = p /\ e.hash = dir'[Client][p].head
                 /\ (\E e \in j.todo : e.pack = p) \/ ~(\E e \in j.summary : e.pack = p)
                      => p \in list'[Client] \/ dir'[Client][p].tree = None
  PROVE  Synced(p)'
<1>0. Client \in Hosts
  BY DEF Hosts
<1>1. /\ job'[Client].summary = j.summary /\ job'[Client].ok = j.ok
      /\ Ends(job'[Client], j)
           \/ \E e \in j.todo : Takes(job'[Client], j, e, row[Client][e.pack].in)
  BY <1>0, NextFields
<1>2. CASE Ends(job'[Client], j)
  <2>1. ~InHand(p)' /\ ~ToDo(p)' /\ ~(\E e \in j.todo : e.pack = p)
    BY <1>2 DEF Ends, InHand, Syncing, Updating, Forcing, ToDo
  <2> QED
    BY <1>1, <2>1 DEF Synced, InSummary, Delivered, Untouched
<1>3. ASSUME NEW e \in j.todo, Takes(job'[Client], j, e, row[Client][e.pack].in)
      PROVE  Synced(p)'
  <2>1. InHand(p)' <=> e.pack = p
    BY <1>3 DEF Takes, InHand, Pack, Syncing
  <2>2. job'[Client].at \notin Updating
    BY <1>3 DEF Takes, Updating, Forcing
  <2>3. e.pack # p => (ToDo(p)' <=> \E f \in j.todo : f.pack = p)
    BY <1>3 DEF Takes, ToDo
  <2>4. InSummary(p)' <=> \E f \in j.summary : f.pack = p
    BY <1>1 DEF InSummary
  <2>5. ~Is(Client, "checkoutFiles")'
    BY <2>2 DEF Is, Updating, Forcing
  <2> QED
    BY <1>1, <2>1, <2>2, <2>3, <2>4, <2>5 DEF Synced, Delivered, Untouched
<1> QED
  BY <1>1, <1>2, <1>3

\* It goes on with the package it has in hand.
LEMMA SameSynced ==
  ASSUME job[Client].at \in Syncing, job'[Client].at \in Syncing,
         job'[Client].pack = job[Client].pack, job'[Client].do = job[Client].do,
         job'[Client].want = job[Client].want,
         job'[Client].todo = job[Client].todo, job'[Client].summary = job[Client].summary,
         job'[Client].ok => job[Client].ok,
         NEW p, Synced(p),
         p # Pack(Client) => /\ p \in list'[Client] <=> p \in list[Client]
                             /\ dir'[Client][p] = dir[Client][p],
         p = Pack(Client) =>
           /\ job'[Client].at \in Updating => p \notin list'[Client]
           /\ job'[Client].at = "checkoutFiles" => dir'[Client][p].head = job[Client].want
  PROVE  Synced(p)'
<1>1. (InHand(p)' <=> InHand(p)) /\ (InHand(p) <=> p = Pack(Client))
      /\ (InSummary(p)' <=> InSummary(p)) /\ (ToDo(p)' <=> ToDo(p))
  BY DEF InHand, InSummary, ToDo, Pack
<1>2. CASE p = Pack(Client)
  BY <1>1, <1>2 DEF Synced, Is
<1>3. CASE p # Pack(Client)
  BY <1>1, <1>3 DEF Synced, Delivered, Untouched
<1> QED
  BY <1>2, <1>3

LEMMA SameAgenda ==
  ASSUME Agenda, job[Client].at \in Syncing, job'[Client].at \in Syncing,
         job'[Client].pack = job[Client].pack, job'[Client].do = job[Client].do,
         job'[Client].want = job[Client].want,
         job'[Client].todo = job[Client].todo, job'[Client].summary = job[Client].summary,
         job[Client].do = "sync"
  PROVE  Agenda'
  BY DEF Agenda, OnlySync, Syncing, Updating, Forcing

\* A job that is no synchronisation asks nothing of it.
LEMMA OtherJob ==
  ASSUME job'[Client].do # "sync", job'[Client].at \notin OnlySync \cup {"done"},
         job'[Client].todo \subseteq job'[Client].summary,
         \A e, f \in job'[Client].summary : e.pack = f.pack => e = f
  PROVE  Agenda' /\ \A p : Synced(p)'
  BY DEF Agenda, Synced

\* Two ways on for the client: with what it has in hand, or another command.
LEMMA ClientSame ==
  ASSUME Agenda, job[Client].at \in Syncing, job'[Client].at \in Syncing,
         job'[Client].pack = job[Client].pack, job'[Client].do = job[Client].do,
         job'[Client].want = job[Client].want,
         job'[Client].todo = job[Client].todo, job'[Client].summary = job[Client].summary,
         job'[Client].ok => job[Client].ok,
         job[Client].do # "sync" => job'[Client].at \notin OnlySync,
         \A p \in Packs \ odd[Client] : Synced(p), NEW S, S \subseteq Packs \ odd[Client],
         \A p \in S : p # Pack(Client) => /\ p \in list'[Client] <=> p \in list[Client]
                                          /\ dir'[Client][p] = dir[Client][p],
         job[Client].do = "sync" /\ job'[Client].ok => \A p \in S : p = Pack(Client) =>
           /\ job'[Client].at \in Updating => p \notin list'[Client]
           /\ job'[Client].at = "checkoutFiles" => dir'[Client][p].head = job[Client].want
  PROVE  Agenda' /\ \A p \in S : Synced(p)'
<1>1. CASE job[Client].do # "sync"
  <2>1. job'[Client].at \notin OnlySync \cup {"done"}
    BY <1>1 DEF Syncing, Updating, Forcing
  <2> QED
    BY <1>1, <2>1, OtherJob DEF Agenda
<1>2. CASE job[Client].do = "sync"
  <2>1. Agenda'
    BY <1>2, SameAgenda
  <2>2. ASSUME NEW p \in S, job'[Client].ok PROVE Synced(p)'
    <3>1. Synced(p)
      OBVIOUS
    <3> QED
      BY <1>2, <2>2, <3>1, SameSynced
  <2>3. ASSUME NEW p \in S, ~job'[Client].ok PROVE Synced(p)'
    BY <2>3 DEF Synced
  <2> QED
    BY <2>1, <2>2, <2>3
<1> QED
  BY <1>1, <1>2

-----------------------------------------------------------------------------
(* A package that nothing is done with.                                     *)

\* What is so of one without a mishap.
Rested(m, p, r, d, l) ==
  /\ ~d.edited /\ (d.tree = d.head \/ d.cut)
  /\ r.in => d.tree # None
  /\ r.enabled => p \notin l
  /\ ~r.in => d.tree = None
  /\ m = Server /\ r.in => r.hash = d.tree
Rests(m) == /\ \A p \in Packs : row[m][p].in => row[m][p].hash # None
            /\ \A p \in Packs \ odd[m] : Rested(m, p, row[m][p], dir[m][p], list[m])

\* Places at which the package in hand need not be so, and at which it is.
Special == {"insert", "rmdir", "record", "cloneFiles", "pullFiles", "checkoutFiles"}
Calm    == {"idle", "refresh", "done", "enable", "clone"}

LEMMA Elsewhere ==
  ASSUME NEW m \in Hosts, Alike(m), NEW q \in Packs \ odd[m],
         job[m].pack # q \/ job[m].at \notin Special
  PROVE  Rested(m, q, row[m][q], dir[m][q], list[m])
<1>1. Agreed(m, q) /\ (m = Server => Held(q))
  BY DEF Alike
<1>2. /\ ~Arriving(m, q) /\ ~Leaving(m, q) /\ ~Halfway(m, q)
      /\ ~(Is(m, "record") /\ Pack(m) = q)
  BY DEF Arriving, Leaving, Halfway, Is, Pack, Special
<1> QED
  BY <1>1, <1>2 DEF Agreed, Held, Rested

LEMMA AtRest ==
  ASSUME NEW m \in Hosts, Alike(m), job[m].at \notin Special
  PROVE  Rests(m)
<1>1. \A p \in Packs : row[m][p].in => row[m][p].hash # None
  BY DEF Alike, Hashed
<1> QED
  BY <1>1, Elsewhere DEF Rests

LEMMA RestedAgreed ==
  ASSUME NEW m \in Hosts, NEW q, job'[m].pack # q \/ job'[m].at \in Calm,
         Rested(m, q, row'[m][q], dir'[m][q], list'[m])
  PROVE  Agreed(m, q)' /\ (m = Server => Held(q)')
<1>1. /\ ~Arriving(m, q)' /\ ~Leaving(m, q)' /\ ~Halfway(m, q)' /\ ~Written(m, q)'
      /\ ~(Pack(m)' = q /\ job'[m].at \in Forcing \cup {"record", "cloneFiles", "status"})
  BY DEF Arriving, Leaving, Halfway, Written, Forcing, Is, Pack, Calm
<1> QED
  BY <1>1 DEF Agreed, Held, Rested, Is

LEMMA OthersAgreed ==
  ASSUME NEW m \in Hosts, Alike(m), NEW q \in Packs \ odd[m], job[m].pack # q,
         job'[m].pack # q \/ job'[m].at \in Calm,
         row'[m][q] = row[m][q], dir'[m][q] = dir[m][q], q \in list'[m] <=> q \in list[m]
  PROVE  Agreed(m, q)' /\ (m = Server => Held(q)')
<1>1. Rested(m, q, row[m][q], dir[m][q], list[m])
  BY Elsewhere
<1>2. Rested(m, q, row'[m][q], dir'[m][q], list'[m])
  BY <1>1 DEF Rested
<1> QED
  BY <1>2, RestedAgreed

LEMMA CalmAgreed ==
  ASSUME NEW m \in Hosts, job'[m].at \in Calm, Rests(m)'
  PROVE  /\ \A p \in Packs \ odd'[m] : Agreed(m, p)'
         /\ m = Server => \A p \in Packs \ odd'[Server] : Held(p)'
<1>1. \A p \in Packs \ odd'[m] : Rested(m, p, row'[m][p], dir'[m][p], list'[m])
  BY DEF Rests
<1> QED
  BY <1>1, RestedAgreed

\* What a checkout that was cut leaves of a package is as good as at rest.
LEMMA TornRested ==
  ASSUME Inv, NEW m \in Hosts, Alike(m),
         job[m].at \in {"cloneFiles", "pullFiles", "checkoutFiles"},
         job[m].pack \notin odd[m], NEW x \in Torn(dir[m][job[m].pack]), x.tree # Mixed
  PROVE  Rested(m, job[m].pack, row[m][job[m].pack], x, list[m])
<1> DEFINE p == job[m].pack
           d == dir[m][p]
<1>1. p \in Packs /\ d \in DirType
  BY Fields DEF Busy
<1>2. Agreed(m, p) /\ (m = Server => Held(p)) /\ ~Arriving(m, p) /\ ~Leaving(m, p)
  BY <1>1 DEF Alike, Arriving, Leaving, Is
<1>3. d.there
  BY DEF Inv, HostOK, Job, Forcing
<1>4. x.tree = d.tree /\ x.head = d.head /\ x.cut = (x.tree # x.head) /\ (x.edited => d.edited)
  BY <1>1, TornFacts
<1> HIDE DEF d
<1>5. ~d.edited /\ (row[m][p].in => d.tree # None) /\ (~row[m][p].in => d.tree = None)
      /\ (row[m][p].enabled => p \notin list[m])
      /\ (m = Server /\ row[m][p].in => row[m][p].hash = d.tree)
  BY <1>2 DEF Agreed, Held, Is, d
<1> QED
  BY <1>4, <1>5 DEF Rested

-----------------------------------------------------------------------------
(* The steps of a command and what the MD5 counts.                          *)

LEMMA DirCell ==
  ASSUME Inv, NEW m \in Hosts, NEW p \in Packs, NEW x, dir' = [dir EXCEPT ![m][p] = x]
  PROVE  /\ dir'[m][p] = x /\ \A q \in Packs : q # p => dir'[m][q] = dir[m][q]
         /\ \E y : dir' = [dir EXCEPT ![m] = y]
<1> DEFINE y == [dir[m] EXCEPT ![p] = x]
<1>1. dir' = [dir EXCEPT ![m] = y]
  OBVIOUS
<1>2. y[p] = x /\ \A q \in Packs : q # p => y[q] = dir[m][q]
  BY Fields
<1> HIDE DEF y
<1>3. dir'[m] = y
  BY <1>1 DEF Inv, OfHosts
<1> QED
  BY <1>1, <1>2, <1>3

LEMMA RowCell ==
  ASSUME Inv, NEW m \in Hosts, NEW p \in Packs, NEW x, row' = [row EXCEPT ![m][p] = x]
  PROVE  /\ row'[m][p] = x /\ \A q \in Packs : q # p => row'[m][q] = row[m][q]
         /\ \E y : row' = [row EXCEPT ![m] = y]
<1> DEFINE y == [row[m] EXCEPT ![p] = x]
<1>1. row' = [row EXCEPT ![m] = y]
  OBVIOUS
<1>2. y[p] = x /\ \A q \in Packs : q # p => y[q] = row[m][q]
  BY Fields
<1> HIDE DEF y
<1>3. row'[m] = y
  BY <1>1 DEF Inv, OfHosts
<1> QED
  BY <1>1, <1>2, <1>3

\* The directory in hand gets x.
LEMMA HandDir ==
  ASSUME Inv, NEW m \in Hosts, job[m].at \in Busy, NEW x, Becomes(m, x)
  PROVE  /\ job[m].pack \in Packs /\ dir'[m][job[m].pack] = x
         /\ \A q \in Packs : q # job[m].pack => dir'[m][q] = dir[m][q]
         /\ \E y : dir' = [dir EXCEPT ![m] = y]
<1> DEFINE p == job[m].pack
<1>1. p \in Packs
  BY Fields
<1>2. dir' = [dir EXCEPT ![m][p] = x]
  BY DEF Becomes, Pack
<1> HIDE DEF p
<1>3. /\ dir'[m][p] = x /\ \A q \in Packs : q # p => dir'[m][q] = dir[m][q]
      /\ \E y : dir' = [dir EXCEPT ![m] = y]
  BY <1>1, <1>2, DirCell, Zenon
<1> QED
  BY <1>1, <1>3 DEF p

\* One host synchronises: the client.
LEMMA Synchronises == ASSUME Sums, NEW m \in Hosts
                      PROVE  /\ job[m].do = "sync" \/ job[m].at \in OnlySync \cup {"done"}
                                  => m = Client /\ job[m].do = "sync"
                             /\ Alike(m)
<1>1. m = Server \/ m = Client
  BY DEF Hosts
<1> QED
  BY <1>1 DEF Sums, Alike, NoSync, Agenda

\* What a mishap does.
LEMMA Odd ==
  ASSUME Inv, NEW m \in Hosts, NEW p, Mishap(m, p)
  PROVE  odd'[m] = odd[m] \cup {p} /\ \E y : odd' = [odd EXCEPT ![m] = y]
<1>1. odd' = [odd EXCEPT ![m] = odd[m] \cup {p}]
  BY DEF Mishap
<1> QED
  BY <1>1, OfAll DEF OfHosts

\* A step that stays with the package in hand.
LEMMA HandAlike ==
  ASSUME Inv, Sums, NEW m \in Hosts, job[m].at \in Syncing,
         row' = row, list' = list, odd' = odd,
         dir' = dir \/ \E y : dir' = [dir EXCEPT ![m] = y],
         \A q \in Packs : q # job[m].pack => dir'[m][q] = dir[m][q],
         \E y : job' = [job EXCEPT ![m] = y],
         job'[m].pack = job[m].pack, job'[m].do = job[m].do, job'[m].want = job[m].want,
         job'[m].todo = job[m].todo, job'[m].summary = job[m].summary,
         job'[m].ok => job[m].ok,
         job'[m].at \in Syncing \cup {"record"}, job'[m].at # "enable",
         job'[m].at = "record" => job[m].do # "sync",
         job'[m].at \in OnlySync => job[m].do = "sync",
         job'[m].at \in Headed \/ (job'[m].at = "insert" /\ job'[m].cloned = "yes")
           => dir'[m][job[m].pack].head # None,
         job[m].pack \notin odd[m]
           => Agreed(m, job[m].pack)' /\ (m = Server => Held(job[m].pack)'),
         m = Client /\ job[m].do = "sync" /\ job'[m].ok /\ job[m].pack \notin odd[m] =>
           /\ job'[m].at \in Updating => job[m].pack \notin list[m]
           /\ job'[m].at = "checkoutFiles" => dir'[m][job[m].pack].head = job[m].want
  PROVE  Sums'
<1>1. Alike(m)
  BY Synchronises
<1>2. Hashed(m)'
  BY <1>1 DEF Alike, Hashed, Is, Pack
<1>3. ASSUME NEW q \in Packs \ odd'[m] PROVE Agreed(m, q)' /\ (m = Server => Held(q)')
  <2>1. CASE q = job[m].pack
    BY <1>3, <2>1
  <2>2. CASE q # job[m].pack
    BY <1>1, <1>3, <2>2, OthersAgreed
  <2> QED
    BY <2>1, <2>2
<1>4. m = Server => NoSync'
  BY <1>1 DEF Alike, NoSync, Syncing, Updating, Forcing
<1>5. ASSUME m = Client PROVE Agenda' /\ \A q \in Packs \ odd'[Client] : Synced(q)'
  <2>1. Agenda /\ \A q \in Packs \ odd[Client] : Synced(q)
    BY <1>1, <1>5 DEF Alike
  <2>2. CASE job'[m].at = "record"
    <3>1. job'[Client].do # "sync" /\ job'[Client].at \notin OnlySync \cup {"done"}
      BY <1>5, <2>2 DEF OnlySync
    <3> QED
      BY <1>5, <2>1, <3>1, OtherJob DEF Agenda
  <2>3. CASE job'[m].at # "record"
    <3> DEFINE S == Packs \ odd'[Client]
    <3>1. S \subseteq Packs \ odd[Client]
      OBVIOUS
    <3>2. \A q \in S : q # Pack(Client) => dir'[Client][q] = dir[Client][q]
      BY <1>5 DEF Pack
    <3>3. job[Client].do = "sync" /\ job'[Client].ok => \A q \in S : q = Pack(Client) =>
            /\ job'[Client].at \in Updating => q \notin list'[Client]
            /\ job'[Client].at = "checkoutFiles" => dir'[Client][q].head = job[Client].want
      BY <1>5 DEF Pack
    <3> HIDE DEF S
    <3>4. Agenda' /\ \A q \in S : Synced(q)'
      BY <1>5, <2>1, <2>3, <3>1, <3>2, <3>3, ClientSame
    <3> QED
      BY <3>4 DEF S
  <2> QED
    BY <2>2, <2>3
<1>6. Alike(m)'
  BY <1>2, <1>3, <1>4, <1>5 DEF Alike
<1>7. \A h \in Hosts : h # m => Still(h)
  BY OneHost
<1> QED
  BY <1>6, <1>7, Local

LEMMA GiveUpAlike ==
  ASSUME Inv, Sums, NEW m \in Hosts, GiveUp(m), row' = row, list' = list, Rests(m)',
         dir' = dir \/ \E y : dir' = [dir EXCEPT ![m] = y],
         odd' = odd \/ \E y : odd' = [odd EXCEPT ![m] = y]
  PROVE  Sums'
<1>1. job[m] \in JobType /\ Alike(m)
  BY Fields, Synchronises
<1>2. CASE job[m].do = "sync"
  <2>1. m = Client
    BY <1>2, Synchronises
  <2> DEFINE j == Failed(job[m])
  <2>2. /\ j \in JobType /\ j.do = "sync" /\ j.ok = FALSE
        /\ j.todo = job[m].todo /\ j.summary = job[m].summary
    BY <1>1, <1>2 DEF JobType, Failed
  <2>3. NextPack(m, j)
    BY <1>2 DEF GiveUp
  <2> HIDE DEF j
  <2>4. /\ job'[m].do = j.do /\ job'[m].summary = j.summary
        /\ Ends(job'[m], j) \/ \E e \in j.todo : Takes(job'[m], j, e, row[m][e.pack].in)
        /\ \E x : job' = [job EXCEPT ![m] = x]
    BY <2>2, <2>3, NextFields
  <2>5. Agenda
    BY <1>1, <2>1 DEF Alike
  <2>6. Agenda'
    BY <2>1, <2>2, <2>3, <2>5, NextAgenda DEF Agenda
  <2>7. \A p \in Packs : Synced(p)'
    BY <2>1, <2>2, <2>3, NextSynced
  <2>8. \A e \in j.todo : e.hash # None
    BY <1>1, <2>1, <2>2, <2>5 DEF Alike, Hashed, Agenda
  <2>9. job'[m].at \in {"done", "enable", "clone"} /\ (job'[m].at = "enable" => job'[m].want # None)
    BY <2>4, <2>8 DEF Ends, Takes
  <2>10. Hashed(m)' /\ \A p \in Packs \ odd'[m] : Agreed(m, p)'
    <3>1. job'[m].at \in Calm /\ job'[m].at \notin Headed /\ job'[m].at # "insert"
      BY <2>9 DEF Calm, Headed
    <3>2. \A e \in job'[m].summary : e.hash # None
      BY <1>1, <2>2, <2>4 DEF Alike, Hashed
    <3> QED
      BY <2>9, <3>1, <3>2, CalmAgreed DEF Rests, Hashed, Is
  <2>11. Alike(m)'
    BY <2>1, <2>6, <2>7, <2>10, PackagesConstants DEF Alike
  <2>12. \A h \in Hosts : h # m => Still(h)
    BY <2>4, OneHost
  <2> QED
    BY <2>11, <2>12, Local
<1>3. CASE job[m].do # "sync"
  <2>1. Go(m, "refresh")
    BY <1>3 DEF GiveUp
  <2>2. /\ job'[m].at = "refresh" /\ job'[m].do = job[m].do /\ job'[m].todo = job[m].todo
        /\ job'[m].summary = job[m].summary /\ \E x : job' = [job EXCEPT ![m] = x]
    BY <2>1, GoFields
  <2>3. Hashed(m)'
    BY <1>1, <2>2 DEF Rests, Alike, Hashed, Is, Headed
  <2>4. m = Client => Agenda' /\ \A p : Synced(p)'
    BY <1>1, <1>3, <2>2, OtherJob DEF Alike, Agenda, OnlySync
  <2>5. m = Server => NoSync'
    BY <1>3, <2>2 DEF NoSync, OnlySync
  <2>6. /\ \A p \in Packs \ odd'[m] : Agreed(m, p)'
        /\ m = Server => \A p \in Packs \ odd'[Server] : Held(p)'
    BY <2>2, CalmAgreed DEF Calm
  <2>7. Alike(m)'
    BY <2>3, <2>4, <2>5, <2>6 DEF Alike
  <2>8. \A h \in Hosts : h # m => Still(h)
    BY <2>2, OneHost
  <2> QED
    BY <2>7, <2>8, Local
<1> QED
  BY <1>2, <1>3

\* A command gives up before it has written anything, or in a checkout.
LEMMA StopAlike ==
  ASSUME Inv, Sums, NEW m \in Hosts, job[m].at \in {"status", "pull", "checkout"}, GiveUp(m),
         row' = row, dir' = dir, list' = list, odd' = odd
  PROVE  Sums'
<1>1. Rests(m)
  BY Synchronises, AtRest DEF Special
<1>2. Rests(m)'
  BY <1>1 DEF Rests
<1> QED
  BY <1>2, GiveUpAlike

LEMMA TearAlike ==
  ASSUME Inv, Sums, NEW m \in Hosts, job[m].at \in {"pullFiles", "checkoutFiles"}, GiveUp(m),
         Tears(m), row' = row, list' = list
  PROVE  Sums'
<1> DEFINE p == job[m].pack
<1>1. job[m].at \in Busy /\ Alike(m)
  BY Synchronises DEF Busy
<1>2. PICK x \in Torn(dir[m][p]) :
        Becomes(m, x) /\ IF x.tree = Mixed THEN Mishap(m, p) ELSE UNCHANGED odd
  BY DEF Tears, Pack
<1>3. /\ p \in Packs /\ dir'[m][p] = x /\ \A q \in Packs : q # p => dir'[m][q] = dir[m][q]
      /\ \E y : dir' = [dir EXCEPT ![m] = y]
  BY <1>1, <1>2, HandDir
<1>4. /\ odd' = odd \/ \E y : odd' = [odd EXCEPT ![m] = y]
      /\ odd[m] \subseteq odd'[m] /\ (p \notin odd'[m] => x.tree # Mixed)
  <2>1. CASE x.tree = Mixed
    <3>1. Mishap(m, p)
      BY <1>2, <2>1
    <3> QED
      BY <3>1, Odd
  <2>2. CASE x.tree # Mixed
    BY <1>2, <2>2
  <2> QED
    BY <2>1, <2>2
<1>5. Rests(m)'
  <2>1. \A q \in Packs : row'[m][q].in => row'[m][q].hash # None
    BY <1>1 DEF Alike, Hashed
  <2>2. ASSUME NEW q \in Packs \ odd'[m]
        PROVE  Rested(m, q, row'[m][q], dir'[m][q], list'[m])
    <3>1. CASE q = p
      BY <1>1, <1>2, <1>3, <1>4, <2>2, <3>1, TornRested
    <3>2. CASE q # p
      BY <1>1, <1>3, <1>4, <2>2, <3>2, Elsewhere
    <3> QED
      BY <3>1, <3>2
  <2> QED
    BY <2>1, <2>2 DEF Rests
<1> QED
  BY <1>3, <1>4, <1>5, GiveUpAlike

LEMMA CloneAlike == ASSUME Inv, Sums, NEW m \in Hosts, Clone(m) PROVE Sums'
<1> DEFINE p == job[m].pack
           c == remote[p]
<1>1. /\ job[m].at = "clone" /\ job[m].at \in Busy /\ p \in Packs /\ Alike(m)
      /\ row' = row /\ list' = list /\ odd' = odd
  BY Fields, Synchronises DEF Clone, Is, Busy
<1>2. job[m].at \in Syncing
  BY <1>1 DEF Syncing
<1>3. p \notin odd[m] => Rested(m, p, row[m][p], dir[m][p], list[m])
  BY <1>1, Elsewhere DEF Special
<1>4. CASE ~dir[m][p].there /\ Becomes(m, Cloned(c)) /\ Go(m, "cloneFiles")
  <2>1. /\ job'[m].at = "cloneFiles" /\ job'[m].pack = p /\ job'[m].do = job[m].do
        /\ job'[m].want = job[m].want /\ job'[m].todo = job[m].todo
        /\ job'[m].summary = job[m].summary /\ job'[m].ok = job[m].ok
        /\ \E y : job' = [job EXCEPT ![m] = y]
    BY <1>4, GoFields
  <2> DEFINE x == Cloned(c)
  <2>2. x.head = c /\ x.tree = None /\ ~x.edited /\ c # None
    <3>1. c \in Commits
      BY <1>1 DEF Inv, Published
    <3> QED
      BY <3>1, CommitFacts DEF Cloned, NoDir
  <2> HIDE DEF x, c
  <2>3. /\ dir'[m][p] = x /\ \A q \in Packs : q # p => dir'[m][q] = dir[m][q]
        /\ \E y : dir' = [dir EXCEPT ![m] = y]
    BY <1>1, <1>4, HandDir DEF x
  <2>4. dir[m][p].tree = None
    <3>1. dir[m][p] = NoDir
      BY <1>1, <1>4, Fields DEF DirOK
    <3> QED
      BY <3>1 DEF NoDir
  <2>5. ASSUME p \notin odd[m] PROVE Agreed(m, p)' /\ (m = Server => Held(p)')
    <3>1. ~row[m][p].in /\ (row[m][p].enabled => p \notin list[m])
      BY <1>3, <2>4, <2>5 DEF Rested
    <3>2. Halfway(m, p)' /\ ~Arriving(m, p)' /\ ~Leaving(m, p)' /\ job'[m].at \notin Forcing
      BY <2>1 DEF Halfway, Arriving, Leaving, Is, Pack, Forcing
    <3> QED
      BY <1>1, <2>1, <2>2, <2>3, <3>1, <3>2 DEF Agreed, Held, Is
  <2>6. /\ job'[m].at \in Syncing \cup {"record"} /\ job'[m].at \notin OnlySync
        /\ job'[m].at \notin Updating
    BY <2>1 DEF Syncing, OnlySync, Updating, Forcing
  <2> QED
    BY <1>1, <1>2, <2>1, <2>2, <2>3, <2>5, <2>6, HandAlike
<1>5. CASE job' = [job EXCEPT ![m] = Fails(@)] /\ dir' = dir
  <2>1. /\ job'[m].at = "insert" /\ job'[m].pack = p /\ job'[m].do = job[m].do
        /\ job'[m].want = job[m].want /\ job'[m].todo = job[m].todo
        /\ job'[m].summary = job[m].summary /\ (job'[m].ok => job[m].ok)
        /\ job'[m].cloned = "no" /\ \E y : job' = [job EXCEPT ![m] = y]
    BY <1>5, ClonedFields
  <2>2. ASSUME p \notin odd[m] PROVE Agreed(m, p)' /\ (m = Server => Held(p)')
    BY <1>1, <1>3, <1>5, <2>1, <2>2
       DEF Rested, Agreed, Held, Halfway, Arriving, Leaving, Written, Is, Forcing
  <2>3. /\ job'[m].at \in Syncing \cup {"record"} /\ job'[m].at \notin OnlySync
        /\ job'[m].at \notin Updating /\ job'[m].at \notin Headed
    BY <2>1 DEF Syncing, OnlySync, Updating, Forcing, Headed
  <2> QED
    BY <1>1, <1>2, <1>5, <2>1, <2>2, <2>3, HandAlike
<1> QED
  BY <1>4, <1>5 DEF Clone, Pack

LEMMA CloneFilesAlike == ASSUME Inv, Sums, NEW m \in Hosts, CloneFiles(m) PROVE Sums'
<1> DEFINE p == job[m].pack
           d == dir[m][p]
<1>1. /\ job[m].at = "cloneFiles" /\ job[m].at \in Busy /\ p \in Packs /\ Alike(m)
      /\ row' = row /\ list' = list /\ odd' = odd
  BY Fields, Synchronises DEF CloneFiles, Is, Busy
<1>2. job[m].at \in Syncing
  BY <1>1 DEF Syncing
<1>3. d.head # None /\ (p \notin odd[m] => ~row[m][p].in /\ (row[m][p].enabled => p \notin list[m]))
  BY <1>1 DEF Alike, Hashed, Agreed, Headed, Is, Pack
<1>4. /\ job'[m].at = "insert" /\ job'[m].pack = p /\ job'[m].do = job[m].do
      /\ job'[m].want = job[m].want /\ job'[m].todo = job[m].todo
      /\ job'[m].summary = job[m].summary /\ (job'[m].ok => job[m].ok)
      /\ job' = [job EXCEPT ![m] = Fails(@)] => job'[m].cloned = "no"
      /\ \E y : job' = [job EXCEPT ![m] = y]
  BY ClonedFields DEF CloneFiles
<1>5. PICK x : /\ Becomes(m, x) /\ x.tree = x.head /\ ~x.edited
               /\ x.head = None => job'[m].cloned = "no"
               /\ x.head # None => job'[m].cloned = "yes"
  <2>1. CASE /\ Becomes(m, Forced(dir[m][Pack(m)]))
             /\ job' = [job EXCEPT ![m] = [@ EXCEPT !.at = "insert", !.cloned = "yes"]]
    <3> DEFINE x == Forced(d)
    <3>1. x.tree = x.head /\ ~x.edited /\ x.head = d.head
      <4>1. d \in DirType
        BY <1>1, Fields
      <4> HIDE DEF d
      <4> QED
        BY <4>1 DEF Forced, DirType
    <3>2. job'[m].cloned = "yes"
      <4>1. job'[m] = [job[m] EXCEPT !.at = "insert", !.cloned = "yes"] /\ job[m] \in JobType
        BY <2>1, OfAll, Fields DEF OfHosts
      <4> QED
        BY <4>1 DEF JobType
    <3>3. Becomes(m, x)
      BY <2>1 DEF Pack
    <3> HIDE DEF x
    <3> QED
      BY <1>3, <3>1, <3>2, <3>3
  <2>2. CASE job' = [job EXCEPT ![m] = Fails(@)] /\ Becomes(m, NoDir)
    <3>1. NoDir.tree = NoDir.head /\ ~NoDir.edited /\ NoDir.head = None
      BY DEF NoDir
    <3> QED
      BY <1>4, <2>2, <3>1
  <2> QED
    BY <2>1, <2>2 DEF CloneFiles
<1> HIDE DEF d
<1>6. /\ dir'[m][p] = x /\ \A q \in Packs : q # p => dir'[m][q] = dir[m][q]
      /\ \E y : dir' = [dir EXCEPT ![m] = y]
  BY <1>1, <1>5, HandDir
<1>7. ASSUME p \notin odd[m] PROVE Agreed(m, p)' /\ (m = Server => Held(p)')
  <2>1. Arriving(m, p)' <=> job'[m].cloned = "yes"
    BY <1>4 DEF Arriving, Is, Pack
  <2>2. /\ ~Leaving(m, p)' /\ job'[m].at \notin Forcing \cup {"record"}
        /\ ~Is(m, "cloneFiles")' /\ ~Is(m, "status")'
    BY <1>4 DEF Leaving, Is, Forcing
  <2>3. /\ dir'[m][p].tree = dir'[m][p].head /\ ~dir'[m][p].edited
        /\ dir'[m][p].tree = None \/ Arriving(m, p)'
    BY <1>5, <1>6, <2>1
  <2>4. ~row'[m][p].in /\ (row'[m][p].enabled => p \notin list'[m])
    BY <1>1, <1>3, <1>7
  <2>5. Agreed(m, p)'
    BY <1>4, <2>2, <2>3, <2>4 DEF Agreed
  <2>6. m = Server => Held(p)'
    BY <1>4, <2>4 DEF Held
  <2> QED
    BY <2>5, <2>6
<1>8. /\ job'[m].at \in Syncing \cup {"record"} /\ job'[m].at \notin OnlySync
      /\ job'[m].at \notin Updating /\ job'[m].at \notin Headed
  BY <1>4 DEF Syncing, OnlySync, Updating, Forcing, Headed
<1> QED
  BY <1>1, <1>2, <1>4, <1>5, <1>6, <1>7, <1>8, HandAlike

\* A command is over.
LEMMA EndRested ==
  ASSUME Inv, NEW m \in Hosts, job' = [job EXCEPT ![m] = Idle], Rests(m)'
  PROVE  Alike(m)'
<1>1. /\ job'[m].do = "nothing" /\ job'[m].at = "idle" /\ job'[m].summary = {}
      /\ job'[m].todo = {}
  <2>1. job'[m] = Idle
    BY IdleFields
  <2> QED
    BY <2>1 DEF Idle
<1>2. Hashed(m)'
  BY <1>1 DEF Rests, Hashed, Headed, Is
<1>3. /\ \A p \in Packs \ odd'[m] : Agreed(m, p)'
      /\ m = Server => \A p \in Packs \ odd'[Server] : Held(p)'
  BY <1>1, CalmAgreed DEF Calm
<1>4. m = Server => NoSync'
  BY <1>1 DEF NoSync, OnlySync
<1>5. m = Client => Agenda' /\ \A p \in Packs : Synced(p)'
  BY <1>1, OtherJob DEF OnlySync
<1> QED
  BY <1>2, <1>3, <1>4, <1>5 DEF Alike

LEMMA InsertAlike == ASSUME Inv, Sums, NEW m \in Hosts, Insert(m) PROVE Sums'
<1> DEFINE p == job[m].pack
           x == IF row[m][p].in THEN row[m][p]
                ELSE [in |-> TRUE, hash |-> IF job[m].cloned = "yes" THEN dir[m][p].head ELSE Bad,
                      enabled |-> TRUE]
<1>1. /\ job[m].at = "insert" /\ p \in Packs /\ job[m] \in JobType /\ Alike(m)
      /\ dir' = dir /\ list' = list
  BY Fields, Synchronises DEF Insert, Is, Busy
<1>2. /\ row'[m][p] = x /\ \A q \in Packs : q # p => row'[m][q] = row[m][q]
      /\ \E y : row' = [row EXCEPT ![m] = y]
  <2>1. row' = [row EXCEPT ![m][p] = x]
    BY DEF Insert, Pack
  <2>2. p \in Packs
    BY <1>1
  <2> HIDE DEF x, p
  <2> QED
    BY <2>1, <2>2, RowCell, Zenon
<1>3. /\ x.in
      /\ x = row[m][p]
           \/ (~row[m][p].in /\ x.hash = IF job[m].cloned = "yes" THEN dir[m][p].head ELSE Bad)
  OBVIOUS
<1> HIDE DEF x
<1>4. /\ odd[m] \subseteq odd'[m] /\ \E y : odd' = [odd EXCEPT ![m] = y]
      /\ p \notin odd'[m] => job[m].cloned = "yes" /\ p \notin list[m]
  <2>1. CASE odd' = odd /\ job[m].cloned = "yes" /\ p \notin list[m]
    BY <2>1, Host
  <2>2. CASE Mishap(m, p)
    <3>1. odd' = [odd EXCEPT ![m] = odd[m] \cup {p}]
      BY <2>2 DEF Mishap
    <3>2. odd'[m] = odd[m] \cup {p}
      BY <3>1, OfAll DEF OfHosts
    <3> QED
      BY <3>1, <3>2
  <2> QED
    BY <2>1, <2>2 DEF Insert, Pack
<1>5. \A q \in Packs : row'[m][q].in => row'[m][q].hash # None
  <2>1. x.hash # None
    BY <1>1, <1>2, <1>3 DEF Alike, Hashed, Is, Pack, Bad, None
  <2> QED
    BY <1>1, <1>2, <2>1 DEF Alike, Hashed
<1>6. \A q \in Packs \ odd'[m] : Rested(m, q, row'[m][q], dir'[m][q], list'[m])
  <2> SUFFICES ASSUME NEW q \in Packs \ odd'[m]
               PROVE  Rested(m, q, row'[m][q], dir'[m][q], list'[m])
    OBVIOUS
  <2>1. q \notin odd[m]
    BY <1>4
  <2>2. CASE q # p
    <3>1. Rested(m, q, row[m][q], dir[m][q], list[m])
      BY <1>1, <2>1, <2>2, Elsewhere
    <3> QED
      BY <1>1, <1>2, <2>2, <3>1
  <2>3. CASE q = p
    <3>1. /\ Agreed(m, p) /\ p \notin list[m] /\ job[m].cloned = "yes"
          /\ Arriving(m, p) /\ Written(m, p) /\ ~Halfway(m, p) /\ dir[m][p].head # None
      BY <1>1, <1>4, <2>1, <2>3 DEF Alike, Hashed, Arriving, Written, Halfway, Is, Pack
    <3>2. /\ ~row[m][p].in /\ dir[m][p].tree = dir[m][p].head /\ ~dir[m][p].edited
      BY <3>1 DEF Agreed
    <3>3. x.in /\ x.hash = dir[m][p].head
      BY <1>3, <3>1, <3>2
    <3> QED
      BY <1>1, <1>2, <2>3, <3>1, <3>2, <3>3 DEF Rested
  <2> QED
    BY <2>2, <2>3
<1>10. Rests(m)'
  BY <1>5, <1>6 DEF Rests
<1>7. CASE job[m].do # "sync"
  <2>1. job' = [job EXCEPT ![m] = Idle]
    BY <1>7 DEF Insert
  <2>3. Alike(m)'
    BY <1>10, <2>1, EndRested
  <2> QED
    BY <1>1, <1>2, <1>4, <2>1, <2>3, OneHost, Local
<1>8. CASE job[m].do = "sync"
  <2>1. m = Client /\ Agenda
    BY <1>1, <1>8, Synchronises DEF Alike
  <2>2. Go(m, "enable")
    BY <1>8 DEF Insert
  <2>3. /\ job'[m].at = "enable" /\ job'[m].pack = p /\ job'[m].do = job[m].do
        /\ job'[m].want = job[m].want /\ job'[m].todo = job[m].todo
        /\ job'[m].summary = job[m].summary /\ job'[m].ok = job[m].ok
        /\ \E y : job' = [job EXCEPT ![m] = y]
    BY <2>2, GoFields
  <2>4. job[m].want # None /\ \A e \in job[m].summary : e.hash # None
    <3>1. [pack |-> job[m].pack, hash |-> job[m].want] \in job[m].summary
      BY <1>1, <1>8, <2>1 DEF Agenda
    <3>2. \A e \in job[m].summary : e.hash # None
      BY <1>1 DEF Alike, Hashed
    <3>3. [pack |-> job[m].pack, hash |-> job[m].want].hash # None
      BY <3>1, <3>2
    <3> QED
      BY <3>2, <3>3
  <2>5. Hashed(m)'
    BY <1>5, <2>3, <2>4 DEF Hashed, Headed, Is
  <2>6. \A q \in Packs \ odd'[m] : Agreed(m, q)'
    BY <1>10, <2>3, CalmAgreed DEF Calm
  <2>7. Agenda' /\ \A q \in Packs \ odd'[Client] : Synced(q)'
    <3> DEFINE S == Packs \ odd'[Client]
    <3>1. S \subseteq Packs \ odd[Client]
      BY <1>4, <2>1
    <3>2. \A q \in Packs \ odd[Client] : Synced(q)
      BY <1>1, <2>1 DEF Alike
    <3> HIDE DEF S
    <3>4. /\ job[Client].at \in Syncing /\ job'[Client].at \in Syncing
          /\ job'[Client].at \notin Updating
      BY <1>1, <2>1, <2>3 DEF Syncing, Updating, Forcing
    <3>5. job'[Client].at # "checkoutFiles"
      BY <2>1, <2>3
    <3>3. Agenda' /\ \A q \in S : Synced(q)'
      BY <1>1, <1>8, <2>1, <2>3, <3>1, <3>2, <3>4, <3>5, ClientSame
    <3> QED
      BY <3>3 DEF S
  <2>8. Alike(m)'
    BY <2>1, <2>5, <2>6, <2>7, PackagesConstants DEF Alike
  <2> QED
    BY <1>1, <1>2, <1>4, <2>3, <2>8, OneHost, Local
<1> QED
  BY <1>7, <1>8

LEMMA CheckStatusAlike == ASSUME Inv, Sums, NEW m \in Hosts, CheckStatus(m) PROVE Sums'
<1> DEFINE p == job[m].pack
<1>1. /\ job[m].at = "status" /\ Alike(m) /\ p \in Packs
      /\ row' = row /\ dir' = dir /\ list' = list /\ odd' = odd
  BY Fields, Synchronises DEF CheckStatus, Is, Busy
<1>2. CASE GiveUp(m)
  BY <1>1, <1>2, StopAlike
<1>3. CASE Status(m, p) = 0 /\ Go(m, "pull")
  <2>1. /\ job'[m].at = "pull" /\ job'[m].pack = p /\ job'[m].do = job[m].do
        /\ job'[m].want = job[m].want /\ job'[m].todo = job[m].todo
        /\ job'[m].summary = job[m].summary /\ job'[m].ok = job[m].ok
        /\ \E y : job' = [job EXCEPT ![m] = y]
    BY <1>3, GoFields
  <2>2. dir[m][p].tree = dir[m][p].head
    BY <1>3 DEF Status, Dirty
  <2>3. ASSUME p \notin odd[m] PROVE Agreed(m, p)' /\ (m = Server => Held(p)')
    <3>1. Rested(m, p, row[m][p], dir[m][p], list[m])
      BY <1>1, <2>3, Elsewhere DEF Special
    <3>2. row[m][p].in \/ dir[m][p].head # None
      BY <1>1, <2>3 DEF Alike, Agreed, Is, Pack
    <3>3. row[m][p].in
      BY <2>2, <3>1, <3>2 DEF Rested
    <3>4. /\ ~Arriving(m, p)' /\ ~Leaving(m, p)' /\ ~Is(m, "cloneFiles")' /\ ~Is(m, "status")'
      BY <2>1 DEF Arriving, Leaving, Is
    <3> QED
      BY <1>1, <2>1, <2>2, <3>1, <3>3, <3>4 DEF Rested, Agreed, Held
  <2>4. m = Client /\ job[m].do = "sync" /\ job'[m].ok /\ p \notin odd[m] => p \notin list[m]
    BY <1>1, <2>1 DEF Alike, Synced, InHand, Syncing, Updating, Pack
  <2>5. /\ job[m].at \in Syncing /\ job'[m].at \in Syncing /\ job'[m].at \notin OnlySync
        /\ job'[m].at \notin Headed
    BY <1>1, <2>1 DEF Syncing, Updating, Forcing, OnlySync, Headed
  <2> QED
    BY <1>1, <2>1, <2>3, <2>4, <2>5, HandAlike
<1> QED
  BY <1>2, <1>3 DEF CheckStatus, Pack

\* HEAD is detached at commit c: the files are still those there were.
LEMMA HeadAlike ==
  ASSUME Inv, Sums, NEW m \in Hosts, job[m].at \in {"pull", "checkout"}, NEW c \in Commits,
         Becomes(m, [dir[m][Pack(m)] EXCEPT !.head = c]),
         NEW at \in {"pullFiles", "checkoutFiles"}, Go(m, at),
         at = "checkoutFiles" => c = job[m].want /\ job[m].do = "sync",
         row' = row, list' = list, odd' = odd
  PROVE  Sums'
<1> DEFINE p == job[m].pack
           x == [dir[m][p] EXCEPT !.head = c]
<1>1. job[m].at \in Busy /\ p \in Packs /\ Alike(m)
  BY Fields, Synchronises DEF Busy
<1>2. /\ x.head = c /\ x.tree = dir[m][p].tree /\ x.edited = dir[m][p].edited
      /\ x.cut = dir[m][p].cut /\ c # None
  <2>1. dir[m][p] \in DirType
    BY <1>1, Fields
  <2> QED
    BY <2>1, CommitFacts DEF DirType
<1>3. Becomes(m, x)
  BY DEF Pack
<1> HIDE DEF x
<1>4. /\ dir'[m][p] = x /\ \A q \in Packs : q # p => dir'[m][q] = dir[m][q]
      /\ \E y : dir' = [dir EXCEPT ![m] = y]
  BY <1>1, <1>3, HandDir
<1>5. /\ job'[m].at = at /\ job'[m].pack = p /\ job'[m].do = job[m].do
      /\ job'[m].want = job[m].want /\ job'[m].todo = job[m].todo
      /\ job'[m].summary = job[m].summary /\ job'[m].ok = job[m].ok
      /\ \E y : job' = [job EXCEPT ![m] = y]
  BY GoFields
<1>6. ASSUME p \notin odd[m] PROVE Agreed(m, p)' /\ (m = Server => Held(p)')
  <2>1. Rested(m, p, row[m][p], dir[m][p], list[m])
    BY <1>1, <1>6, Elsewhere DEF Special
  <2>2. row[m][p].in
    BY <1>1, <1>6 DEF Alike, Agreed, Forcing, Pack
  <2>3. /\ Halfway(m, p)' /\ ~Arriving(m, p)' /\ ~Leaving(m, p)'
        /\ ~Is(m, "cloneFiles")' /\ ~Is(m, "status")'
    BY <1>5 DEF Halfway, Arriving, Leaving, Is, Pack
  <2> QED
    BY <1>2, <1>4, <1>5, <2>1, <2>2, <2>3 DEF Rested, Agreed, Held
<1>7. m = Client /\ job[m].do = "sync" /\ job[m].ok /\ p \notin odd[m] => p \notin list[m]
  BY <1>1 DEF Alike, Synced, InHand, Syncing, Updating, Forcing, Pack
<1>8. /\ job[m].at \in Syncing /\ job'[m].at \in Syncing
      /\ job'[m].at \in OnlySync => at = "checkoutFiles"
      /\ job'[m].at # "record" /\ job'[m].at # "enable"
  BY <1>5 DEF Syncing, Updating, Forcing, OnlySync
<1> QED
  BY <1>1, <1>2, <1>4, <1>5, <1>6, <1>7, <1>8, HandAlike

LEMMA PullAlike == ASSUME Inv, Sums, NEW m \in Hosts, Pull(m) PROVE Sums'
<1>1. /\ job[m].at = "pull" /\ row' = row /\ list' = list /\ odd' = odd
      /\ remote[Pack(m)] \in Commits
  BY Fields DEF Pull, Is, Busy, Pack, Inv, Published
<1>2. CASE GiveUp(m) /\ dir' = dir
  BY <1>1, <1>2, StopAlike
<1>3. CASE /\ Becomes(m, [dir[m][Pack(m)] EXCEPT !.head = remote[Pack(m)]])
           /\ Go(m, "pullFiles")
  BY <1>1, <1>3, HeadAlike
<1> QED
  BY <1>2, <1>3 DEF Pull

LEMMA CheckoutAlike == ASSUME Inv, Sums, NEW m \in Hosts, Checkout(m) PROVE Sums'
<1>1. /\ job[m].at = "checkout" /\ row' = row /\ list' = list /\ odd' = odd
      /\ remote[Pack(m)] \in Commits
  BY Fields DEF Checkout, Is, Busy, Pack, Inv, Published
<1>2. job[m].do = "sync"
  BY <1>1, Synchronises DEF OnlySync
<1>3. CASE GiveUp(m) /\ dir' = dir
  BY <1>1, <1>3, StopAlike
<1>4. CASE /\ job[m].want \in 1..remote[Pack(m)]
           /\ Becomes(m, [dir[m][Pack(m)] EXCEPT !.head = job[m].want])
           /\ Go(m, "checkoutFiles")
  <2>1. job[m].want \in Commits
    BY <1>1, <1>4, PackagesConstants DEF Commits
  <2> QED
    BY <1>1, <1>2, <1>4, <2>1, HeadAlike
<1> QED
  BY <1>3, <1>4 DEF Checkout

\* The forced checkout of that HEAD.
LEMMA FilesFacts ==
  ASSUME Inv, Sums, NEW m \in Hosts, job[m].at \in {"pullFiles", "checkoutFiles"},
         Becomes(m, Forced(dir[m][Pack(m)]))
  PROVE  LET p == job[m].pack IN
         /\ p \in Packs /\ dir'[m][p].head = dir[m][p].head /\ dir[m][p].head # None
         /\ dir'[m][p].tree = dir[m][p].head /\ ~dir'[m][p].edited
         /\ \A q \in Packs : q # p => dir'[m][q] = dir[m][q]
         /\ \E y : dir' = [dir EXCEPT ![m] = y]
         /\ p \notin odd[m] => row[m][p].in /\ (row[m][p].enabled => p \notin list[m])
<1> DEFINE p == job[m].pack
           x == Forced(dir[m][p])
<1>1. job[m].at \in Busy /\ p \in Packs /\ Alike(m)
  BY Fields, Synchronises DEF Busy
<1>2. x.head = dir[m][p].head /\ x.tree = x.head /\ ~x.edited
  <2>1. dir[m][p] \in DirType
    BY <1>1, Fields
  <2> QED
    BY <2>1 DEF Forced, DirType
<1>3. Becomes(m, x)
  BY DEF Pack
<1> HIDE DEF x
<1>4. /\ dir'[m][p] = x /\ \A q \in Packs : q # p => dir'[m][q] = dir[m][q]
      /\ \E y : dir' = [dir EXCEPT ![m] = y]
  BY <1>1, <1>3, HandDir
<1>5. dir[m][p].head # None
  BY <1>1 DEF Alike, Hashed, Headed, Pack
<1>6. p \notin odd[m] => row[m][p].in /\ (row[m][p].enabled => p \notin list[m])
  BY <1>1 DEF Alike, Agreed, Forcing, Pack
<1> QED
  BY <1>1, <1>2, <1>4, <1>5, <1>6

LEMMA PullFilesAlike == ASSUME Inv, Sums, NEW m \in Hosts, PullFiles(m) PROVE Sums'
<1> DEFINE p == job[m].pack
<1>1. /\ job[m].at = "pullFiles" /\ row' = row /\ list' = list /\ Alike(m)
  BY Synchronises DEF PullFiles, Is
<1>2. CASE GiveUp(m) /\ Tears(m)
  BY <1>1, <1>2, TearAlike
<1>3. ASSUME NEW at \in {"checkout", "record"}, Go(m, at), at = "checkout" <=> job[m].do = "sync",
             Becomes(m, Forced(dir[m][Pack(m)])), odd' = odd
      PROVE  Sums'
  <2>1. /\ job'[m].at = at /\ job'[m].pack = p /\ job'[m].do = job[m].do
        /\ job'[m].want = job[m].want /\ job'[m].todo = job[m].todo
        /\ job'[m].summary = job[m].summary /\ job'[m].ok = job[m].ok
        /\ \E y : job' = [job EXCEPT ![m] = y]
    BY <1>3, GoFields
  <2>2. /\ p \in Packs /\ dir'[m][p].head = dir[m][p].head /\ dir[m][p].head # None
        /\ dir'[m][p].tree = dir[m][p].head /\ ~dir'[m][p].edited
        /\ \A q \in Packs : q # p => dir'[m][q] = dir[m][q]
        /\ \E y : dir' = [dir EXCEPT ![m] = y]
        /\ p \notin odd[m] => row[m][p].in /\ (row[m][p].enabled => p \notin list[m])
    BY <1>1, <1>3, FilesFacts
  <2>3. m = Server => at = "record"
    BY <1>1, <1>3 DEF Alike, NoSync
  <2>4. ASSUME p \notin odd[m] PROVE Agreed(m, p)' /\ (m = Server => Held(p)')
    <3>1. /\ ~Arriving(m, p)' /\ ~Leaving(m, p)' /\ ~Is(m, "cloneFiles")' /\ ~Is(m, "status")'
      BY <2>1 DEF Arriving, Leaving, Is
    <3>3. /\ row'[m][p].in /\ (row'[m][p].enabled => p \notin list'[m])
          /\ dir'[m][p].tree = dir'[m][p].head /\ dir'[m][p].tree # None
      BY <1>1, <2>2, <2>4
    <3>4. Agreed(m, p)'
      BY <2>1, <2>2, <3>1, <3>3 DEF Agreed
    <3>5. ASSUME m = Server PROVE Held(p)'
      <4>1. job'[Server].at = "record" /\ job'[Server].pack = p
        BY <2>1, <2>3, <3>5
      <4> QED
        BY <2>1, <3>5, <4>1 DEF Held, Is, Pack
    <3> QED
      BY <3>4, <3>5
  <2>5. m = Client /\ job[m].do = "sync" /\ job[m].ok /\ p \notin odd[m] => p \notin list[m]
    BY <1>1, <2>2 DEF Alike, Synced, InHand, Syncing, Updating, Forcing, Pack
  <2>6. /\ job[m].at \in Syncing /\ job'[m].at \in Syncing \cup {"record"}
        /\ job'[m].at \in OnlySync => at = "checkout"
        /\ job'[m].at # "checkoutFiles" /\ job'[m].at # "enable"
    BY <1>1, <2>1 DEF Syncing, Updating, Forcing, OnlySync
  <2> QED
    BY <1>1, <1>3, <2>1, <2>2, <2>4, <2>5, <2>6, HandAlike
<1>4. CASE /\ Becomes(m, Forced(dir[m][Pack(m)])) /\ UNCHANGED odd
           /\ Go(m, IF job[m].do = "sync" THEN "checkout" ELSE "record")
  BY <1>3, <1>4
<1> QED
  BY <1>2, <1>4 DEF PullFiles

LEMMA CheckoutFilesAlike == ASSUME Inv, Sums, NEW m \in Hosts, CheckoutFiles(m) PROVE Sums'
<1> DEFINE j == job[m]
           p == job[m].pack
<1>1. /\ j.at = "checkoutFiles" /\ Alike(m) /\ j \in JobType /\ row' = row /\ list' = list
      /\ m = Client /\ j.do = "sync" /\ Agenda /\ \A q \in Packs \ odd[Client] : Synced(q)
  <2>1. job[m].at = "checkoutFiles" /\ row' = row /\ list' = list
    BY DEF CheckoutFiles, Is
  <2>2. m = Client /\ job[m].do = "sync" /\ Alike(m)
    BY <2>1, Synchronises DEF OnlySync
  <2> QED
    BY <2>1, <2>2, Fields DEF Alike
<1>2. CASE GiveUp(m) /\ Tears(m)
  BY <1>1, <1>2, TearAlike
<1>3. CASE Becomes(m, Forced(dir[m][Pack(m)])) /\ UNCHANGED odd /\ NextPack(m, job[m])
  <2>1. /\ p \in Packs /\ dir'[m][p].head = dir[m][p].head /\ dir[m][p].head # None
        /\ dir'[m][p].tree = dir[m][p].head /\ ~dir'[m][p].edited
        /\ \A q \in Packs : q # p => dir'[m][q] = dir[m][q]
        /\ \E y : dir' = [dir EXCEPT ![m] = y]
        /\ p \notin odd[m] => row[m][p].in /\ (row[m][p].enabled => p \notin list[m])
    BY <1>1, <1>3, FilesFacts
  <2>2. /\ job'[m].do = j.do /\ job'[m].summary = j.summary
        /\ Ends(job'[m], j) \/ \E e \in j.todo : Takes(job'[m], j, e, row[m][e.pack].in)
        /\ \E x : job' = [job EXCEPT ![m] = x]
    BY <1>1, <1>3, NextFields
  <2>3. Client # Server
    BY PackagesConstants
  <2>4. Rests(m)'
    <3>1. ASSUME NEW q \in Packs \ odd'[m]
          PROVE  Rested(m, q, row'[m][q], dir'[m][q], list'[m])
      <4>1. CASE q = p
        BY <1>1, <1>3, <2>1, <2>3, <3>1, <4>1 DEF Rested
      <4>2. CASE q # p
        BY <1>1, <1>3, <2>1, <3>1, <4>2, Elsewhere
      <4> QED
        BY <4>1, <4>2
    <3> QED
      BY <1>1, <3>1 DEF Rests, Alike, Hashed
  <2>5. \A e \in j.summary : e.hash # None
    BY <1>1 DEF Alike, Hashed
  <2>6. job'[m].at \in {"done", "enable", "clone"} /\ (job'[m].at = "enable" => job'[m].want # None)
    BY <1>1, <2>2, <2>5 DEF Ends, Takes, Agenda
  <2>7. Hashed(m)' /\ \A q \in Packs \ odd'[m] : Agreed(m, q)'
    <3>1. job'[m].at \in Calm /\ job'[m].at \notin Headed /\ job'[m].at # "insert"
      BY <2>6 DEF Calm, Headed
    <3> QED
      BY <2>2, <2>4, <2>5, <2>6, <3>1, CalmAgreed DEF Rests, Hashed, Is
  <2>8. Agenda'
    BY <1>1, <1>3, NextAgenda DEF Agenda
  <2>9. ASSUME NEW q \in Packs \ odd'[Client] PROVE Synced(q)'
    <3>1. Synced(q)
      BY <1>1, <1>3, <2>9
    <3>2. ASSUME j.ok, \E e \in j.summary : e.pack = q, ~(\E e \in j.todo : e.pack = q)
          PROVE  /\ q \notin list'[Client]
                 /\ \E e \in j.summary : e.pack = q /\ e.hash = dir'[Client][q].head
      <4>1. CASE q = p
        <5> DEFINE e == [pack |-> j.pack, hash |-> j.want]
        <5>1. InHand(q)
          BY <1>1, <4>1 DEF InHand, Syncing, Updating, Forcing, Pack
        <5>2. q \notin list[Client] /\ dir[Client][q].head = j.want
          BY <1>1, <3>1, <3>2, <5>1 DEF Synced, Updating, Forcing, Is
        <5>3. e \in j.summary /\ e.pack = q /\ e.hash = dir'[Client][q].head
          BY <1>1, <2>1, <4>1, <5>2 DEF Agenda
        <5> QED
          BY <1>1, <5>2, <5>3
      <4>2. CASE q # p
        BY <1>1, <2>1, <2>9, <3>1, <3>2, <4>2 DEF Synced, InHand, InSummary, ToDo, Delivered, Pack
      <4> QED
        BY <4>1, <4>2
    <3>3. ASSUME j.ok, (\E e \in j.todo : e.pack = q) \/ ~(\E e \in j.summary : e.pack = q)
          PROVE  q \in list'[Client] \/ dir'[Client][q].tree = None
      <4>1. q # p
        <5> DEFINE e == [pack |-> j.pack, hash |-> j.want]
        <5>1. e \in j.summary /\ e \notin j.todo /\ e.pack = p
          BY <1>1 DEF Agenda
        <5> HIDE DEF e
        <5>2. ASSUME NEW f \in j.todo, f.pack = p PROVE FALSE
          BY <1>1, <5>1, <5>2 DEF Agenda
        <5> QED
          BY <3>3, <5>1, <5>2
      <4> QED
        BY <1>1, <2>1, <2>9, <3>1, <3>3, <4>1 DEF Synced, InHand, InSummary, ToDo, Untouched, Pack
    <3> QED
      BY <1>1, <1>3, <3>2, <3>3, NextSynced
  <2>10. Alike(m)'
    BY <1>1, <2>3, <2>7, <2>8, <2>9 DEF Alike
  <2>11. \A h \in Hosts : h # m => Still(h)
    BY <1>1, <1>3, <2>1, <2>2, OneHost
  <2> QED
    BY <2>10, <2>11, Local
<1> QED
  BY <1>2, <1>3 DEF CheckoutFiles

\* A command begins.
LEMMA BeginAlike ==
  ASSUME NEW m \in Hosts, job'[m].do # "sync", job'[m].summary = {}, job'[m].todo = {},
         job'[m].at \in {"idle", "clone", "refresh", "status"}, Rests(m)',
         job'[m].at = "status" =>
           \A p \in Packs \ odd'[m] : job'[m].pack = p => dir'[m][p].head # None
  PROVE  Alike(m)'
<1>1. Hashed(m)'
  BY DEF Rests, Hashed, Headed, Is
<1>2. ASSUME NEW p \in Packs \ odd'[m] PROVE Agreed(m, p)' /\ (m = Server => Held(p)')
  <2>1. Rested(m, p, row'[m][p], dir'[m][p], list'[m])
    BY <1>2 DEF Rests
  <2>2. CASE job'[m].at # "status"
    BY <2>1, <2>2, RestedAgreed DEF Calm
  <2>3. CASE job'[m].at = "status"
    <3>1. /\ ~Arriving(m, p)' /\ ~Leaving(m, p)' /\ ~Halfway(m, p)' /\ ~Written(m, p)'
          /\ ~Is(m, "cloneFiles")' /\ ~Is(m, "record")' /\ job'[m].at \notin Forcing \cup {"record"}
      BY <2>3 DEF Arriving, Leaving, Halfway, Written, Is, Forcing
    <3>2. Pack(m)' = p => dir'[m][p].head # None
      BY <1>2, <2>3 DEF Pack
    <3> QED
      BY <2>1, <3>1, <3>2 DEF Agreed, Held, Rested, Is
  <2> QED
    BY <2>2, <2>3
<1>3. m = Server => NoSync'
  BY DEF NoSync, OnlySync
<1>4. m = Client => Agenda' /\ \A p \in Packs : Synced(p)'
  BY OtherJob DEF OnlySync
<1> QED
  BY <1>1, <1>2, <1>3, <1>4 DEF Alike

LEMMA RefreshAlike == ASSUME Inv, Sums, NEW m \in Hosts, Refresh(m) PROVE Sums'
<1>1. /\ job[m].at = "refresh" /\ Alike(m) /\ job' = [job EXCEPT ![m] = Idle]
      /\ row' = row /\ dir' = dir /\ list' = list /\ odd' = odd
  BY Synchronises DEF Refresh, Is
<1>2. Rests(m)'
  BY <1>1, AtRest DEF Rests, Special
<1> QED
  BY <1>1, <1>2, EndRested, OneHost, Local

LEMMA DownloadCompleteAlike == ASSUME Inv, Sums, DownloadComplete PROVE Sums'
<1> DEFINE m == Client
<1>1. /\ m \in Hosts /\ job[m].at = "done" /\ Alike(m) /\ job' = [job EXCEPT ![m] = Idle]
      /\ row' = row /\ dir' = dir /\ list' = list /\ odd' = odd
  BY DEF DownloadComplete, Is, Sums, Hosts
<1>2. Rests(m)'
  BY <1>1, AtRest DEF Rests, Special
<1> QED
  BY <1>1, <1>2, EndRested, OneHost, Local

LEMMA RestartAlike == ASSUME Inv, Sums, NEW m \in Hosts, Restart(m) PROVE Sums'
<1> DEFINE p == job[m].pack
<1>1. /\ Alike(m) /\ job' = [job EXCEPT ![m] = Idle] /\ row' = row
      /\ list' = [list EXCEPT ![m] = DisabledRows(m)]
  BY Synchronises DEF Restart
<1>2. \A q \in Packs : row[m][q].enabled => q \notin list'[m]
  BY <1>1, OfAll DEF OfHosts, DisabledRows
<1>3. /\ dir' = dir \/ \E y : dir' = [dir EXCEPT ![m] = y]
      /\ odd' = odd \/ \E y : odd' = [odd EXCEPT ![m] = y]
      /\ \A q \in Packs \ odd'[m] : Rested(m, q, row[m][q], dir'[m][q], list[m])
  <2>1. CASE /\ job[m].at \notin Writing /\ dir' = dir
             /\ IF job[m].at \in {"insert", "record"} THEN Mishap(m, p) ELSE UNCHANGED odd
    <3>1. /\ odd' = odd \/ \E y : odd' = [odd EXCEPT ![m] = y]
          /\ odd[m] \subseteq odd'[m] /\ (job[m].at \in {"insert", "record"} => p \in odd'[m])
      <4>1. CASE Mishap(m, p)
        BY <4>1, Odd
      <4>2. CASE odd' = odd /\ job[m].at \notin {"insert", "record"}
        BY <4>2
      <4> QED
        BY <2>1, <4>1, <4>2
    <3>2. ASSUME NEW q \in Packs \ odd'[m] PROVE Rested(m, q, row[m][q], dir'[m][q], list[m])
      <4>1. q \in Packs \ odd[m] /\ (p # q \/ job[m].at \notin Special)
        BY <2>1, <3>1 DEF Special, Writing
      <4> QED
        BY <1>1, <2>1, <4>1, Elsewhere
    <3> QED
      BY <2>1, <3>1, <3>2
  <2>2. ASSUME job[m].at \in Writing, NEW x \in Left(m), Becomes(m, x),
               IF job[m].at = "rmdir" \/ x.tree = Mixed THEN Mishap(m, p) ELSE UNCHANGED odd
        PROVE  /\ \E y : dir' = [dir EXCEPT ![m] = y]
               /\ odd' = odd \/ \E y : odd' = [odd EXCEPT ![m] = y]
               /\ \A q \in Packs \ odd'[m] : Rested(m, q, row[m][q], dir'[m][q], list[m])
    <3>1. /\ odd' = odd \/ \E y : odd' = [odd EXCEPT ![m] = y]
          /\ odd[m] \subseteq odd'[m]
          /\ p \notin odd'[m] => job[m].at # "rmdir" /\ x.tree # Mixed
      <4>1. CASE Mishap(m, p)
        BY <4>1, Odd
      <4>2. CASE odd' = odd /\ job[m].at # "rmdir" /\ x.tree # Mixed
        BY <4>2
      <4> QED
        BY <2>2, <4>1, <4>2
    <3>2. /\ p \in Packs /\ dir'[m][p] = x /\ \A q \in Packs : q # p => dir'[m][q] = dir[m][q]
          /\ \E y : dir' = [dir EXCEPT ![m] = y]
      <4>1. job[m].at \in Busy
        BY <2>2 DEF Writing, Busy
      <4> QED
        BY <2>2, <4>1, HandDir
    <3>3. ASSUME NEW q \in Packs \ odd'[m] PROVE Rested(m, q, row[m][q], dir'[m][q], list[m])
      <4>1. CASE q # p
        BY <1>1, <3>1, <3>2, <3>3, <4>1, Elsewhere
      <4>2. CASE q = p /\ job[m].at = "clone"
        <5>1. Rested(m, q, row[m][q], dir[m][q], list[m])
          BY <1>1, <3>1, <3>3, <4>2, Elsewhere DEF Special
        <5>2. x = dir[m][p] \/ x = [dir[m][p] EXCEPT !.there = TRUE]
          BY <2>2, <4>2 DEF Left, Is, Pack
        <5>3. dir[m][p] \in DirType
          BY <3>2, Fields
        <5>4. /\ x.tree = dir[m][p].tree /\ x.head = dir[m][p].head
              /\ x.edited = dir[m][p].edited /\ x.cut = dir[m][p].cut
          BY <5>2, <5>3 DEF DirType
        <5> QED
          BY <3>2, <4>2, <5>1, <5>4 DEF Rested
      <4>3. CASE q = p /\ job[m].at # "clone"
        <5>1. job[m].at \in {"cloneFiles", "pullFiles", "checkoutFiles"} /\ p \notin odd[m]
              /\ x.tree # Mixed
          BY <2>2, <3>1, <3>3, <4>3 DEF Writing
        <5>2. x \in Torn(dir[m][p])
          BY <2>2, <5>1 DEF Left, Is, Pack
        <5> QED
          BY <1>1, <3>2, <4>3, <5>1, <5>2, TornRested
      <4> QED
        BY <4>1, <4>2, <4>3
    <3> QED
      BY <3>1, <3>2, <3>3
  <2> QED
    BY <2>1, <2>2 DEF Restart, Is, Pack
<1>4. Rests(m)'
  <2>1. \A q \in Packs : row'[m][q].in => row'[m][q].hash # None
    BY <1>1 DEF Alike, Hashed
  <2>2. ASSUME NEW q \in Packs \ odd'[m]
        PROVE  Rested(m, q, row'[m][q], dir'[m][q], list'[m])
    BY <1>1, <1>2, <1>3, <2>2 DEF Rested
  <2> QED
    BY <2>1, <2>2 DEF Rests
<1>5. Alike(m)'
  BY <1>1, <1>4, EndRested
<1>6. list' = list \/ \E y : list' = [list EXCEPT ![m] = y]
  BY <1>1
<1>7. job' = job \/ \E y : job' = [job EXCEPT ![m] = y]
  BY <1>1
<1>8. \A h \in Hosts : h # m => Still(h)
  BY <1>1, <1>3, <1>6, <1>7, OneHost
<1> QED
  BY <1>5, <1>8, Local

LEMMA RemoveDirAlike == ASSUME Inv, Sums, NEW m \in Hosts, RemoveDir(m) PROVE Sums'
<1> DEFINE p == job[m].pack
<1>1. /\ Alike(m) /\ job[m].at = "rmdir" /\ job' = [job EXCEPT ![m] = Idle] /\ p \in Packs
      /\ row' = row /\ list' = list /\ odd' = odd /\ dir' = [dir EXCEPT ![m][p] = NoDir]
  BY Synchronises, Fields DEF RemoveDir, Is, Pack, Busy
<1>2. /\ dir'[m][p] = NoDir /\ \A q \in Packs : q # p => dir'[m][q] = dir[m][q]
      /\ \E y : dir' = [dir EXCEPT ![m] = y]
  <2>1. p \in Packs
    BY <1>1
  <2>2. dir' = [dir EXCEPT ![m][p] = NoDir]
    BY <1>1
  <2> HIDE DEF p
  <2> QED
    BY <2>1, <2>2, DirCell, Zenon
<1>3. Rests(m)'
  <2>1. \A q \in Packs : row'[m][q].in => row'[m][q].hash # None
    BY <1>1 DEF Alike, Hashed
  <2>2. ASSUME NEW q \in Packs \ odd'[m]
        PROVE  Rested(m, q, row'[m][q], dir'[m][q], list'[m])
    <3>2. CASE q = p
      <4>1. ~row[m][p].in /\ dir'[m][q] = NoDir
        BY <1>1, <1>2, <2>2, <3>2 DEF Alike, Agreed, Leaving, Is, Pack
      <4>2. ~row[m][p].enabled
        BY <1>1, <4>1, Fields DEF RowOK
      <4> QED
        BY <1>1, <3>2, <4>1, <4>2 DEF Rested, NoDir
    <3>3. CASE q # p
      BY <1>1, <1>2, <2>2, <3>3, Elsewhere
    <3> QED
      BY <3>2, <3>3
  <2> QED
    BY <2>1, <2>2 DEF Rests
<1>4. Alike(m)'
  BY <1>1, <1>3, EndRested
<1>5. \A h \in Hosts : h # m => Still(h)
  BY <1>1, <1>2, OneHost
<1> QED
  BY <1>4, <1>5, Local

LEMMA RecordAlike == ASSUME Inv, Sums, NEW m \in Hosts, Record(m) PROVE Sums'
<1> DEFINE p == job[m].pack
           x == [row[m][p] EXCEPT !.hash = IF row[m][p].in THEN dir[m][p].head ELSE @]
<1>1. /\ Alike(m) /\ job[m].at = "record" /\ p \in Packs /\ Go(m, "refresh")
      /\ dir' = dir /\ list' = list /\ odd' = odd
      /\ row[m][p] \in RowType
  BY Synchronises, Fields DEF Record, Is, Busy
<1>2. /\ row'[m][p] = x /\ \A q \in Packs : q # p => row'[m][q] = row[m][q]
      /\ \E y : row' = [row EXCEPT ![m] = y]
  <2>1. row' = [row EXCEPT ![m][p] = x]
    BY DEF Record, Pack
  <2>2. p \in Packs
    BY <1>1
  <2> HIDE DEF x, p
  <2> QED
    BY <2>1, <2>2, RowCell, Zenon
<1>3. /\ x.in = row[m][p].in /\ x.enabled = row[m][p].enabled
      /\ x.in => x.hash = dir[m][p].head
  BY <1>1 DEF RowType
<1> HIDE DEF x
<1>4. /\ job'[m].at = "refresh" /\ job'[m].do = job[m].do /\ job'[m].todo = job[m].todo
      /\ job'[m].summary = job[m].summary
      /\ \E y : job' = [job EXCEPT ![m] = y]
  BY <1>1, GoFields
<1>5. Rests(m)'
  <2>1. dir[m][p].head # None
    BY <1>1 DEF Alike, Hashed, Headed, Pack
  <2>2. \A q \in Packs : row'[m][q].in => row'[m][q].hash # None
    BY <1>1, <1>2, <1>3, <2>1 DEF Alike, Hashed
  <2>3. ASSUME NEW q \in Packs \ odd'[m]
        PROVE  Rested(m, q, row'[m][q], dir'[m][q], list'[m])
    <3>1. CASE q = p
      <4>1. Agreed(m, p) /\ Written(m, p) /\ ~Halfway(m, p) /\ ~Arriving(m, p)
            /\ job[m].at \in Forcing \cup {"record"} /\ Pack(m) = p
        BY <1>1, <2>3, <3>1 DEF Alike, Written, Halfway, Arriving, Is, Pack
      <4>2. /\ ~dir[m][p].edited /\ dir[m][p].tree = dir[m][p].head /\ row[m][p].in
            /\ row[m][p].enabled => p \notin list[m]
        BY <4>1 DEF Agreed
      <4> QED
        BY <1>1, <1>2, <1>3, <2>1, <3>1, <4>2 DEF Rested
    <3>2. CASE q # p
      BY <1>1, <1>2, <2>3, <3>2, Elsewhere
    <3> QED
      BY <3>1, <3>2
  <2> QED
    BY <2>2, <2>3 DEF Rests
<1>6. /\ Hashed(m)' /\ \A q \in Packs \ odd'[m] : Agreed(m, q)'
      /\ m = Server => \A q \in Packs \ odd'[Server] : Held(q)'
  <2>1. Hashed(m)'
    BY <1>1, <1>4, <1>5 DEF Rests, Alike, Hashed, Headed, Is
  <2> QED
    BY <1>4, <1>5, <2>1, CalmAgreed DEF Calm
<1>7. m = Server => NoSync'
  BY <1>1, <1>4 DEF Alike, NoSync, OnlySync
<1>8. m = Client => Agenda' /\ \A q \in Packs : Synced(q)'
  <2> SUFFICES ASSUME m = Client PROVE Agenda' /\ \A q \in Packs : Synced(q)'
    OBVIOUS
  <2>1. Agenda /\ job[Client].do # "sync"
    BY <1>1 DEF Alike, Agenda, Syncing, Updating, Forcing
  <2> QED
    BY <1>4, <2>1, OtherJob DEF Agenda, OnlySync
<1>9. Alike(m)'
  BY <1>6, <1>7, <1>8 DEF Alike
<1>10. \A h \in Hosts : h # m => Still(h)
  BY <1>1, <1>2, <1>4, OneHost
<1> QED
  BY <1>9, <1>10, Local

\* A command begins, with a job that starts at the place at.
LEMMA BeginFields ==
  ASSUME Inv, Sums, NEW m \in Hosts, Command(m)
  PROVE  Alike(m) /\ Rests(m)
<1>1. Alike(m) /\ job[m].at = "idle"
  BY Synchronises DEF Command, Free
<1> QED
  BY <1>1, AtRest DEF Special

LEMMA StartAlike ==
  ASSUME Inv, Sums, NEW m \in Hosts, NEW do \in {"install", "enable", "disable", "upgrade"},
         NEW at \in {"clone", "refresh", "status"}, NEW p \in Packs, Start(m, do, at, p), Rests(m)',
         at = "status" => p \in odd'[m] \/ dir'[m][p].head # None,
         row' = row \/ \E x : row' = [row EXCEPT ![m] = x],
         dir' = dir \/ \E x : dir' = [dir EXCEPT ![m] = x],
         list' = list \/ \E x : list' = [list EXCEPT ![m] = x],
         odd' = odd \/ \E x : odd' = [odd EXCEPT ![m] = x]
  PROVE  Sums'
<1>1. /\ job'[m].do = do /\ job'[m].at = at /\ job'[m].pack = p
      /\ job'[m].summary = {} /\ job'[m].todo = {}
      /\ \E x : job' = [job EXCEPT ![m] = x]
  BY StartFields
<1>2. Alike(m)'
  BY <1>1, BeginAlike
<1>3. \A h \in Hosts : h # m => Still(h)
  BY <1>1, OneHost
<1> QED
  BY <1>2, <1>3, Local

LEMMA DownloadAlike ==
  ASSUME Inv, Sums, NEW m \in Hosts, NEW p \in Packs, DownloadNewPack(m, p) PROVE Sums'
<1>1. /\ Rests(m) /\ row' = row /\ dir' = dir /\ list' = list /\ odd' = odd
      /\ Start(m, "install", "clone", p)
  BY BeginFields DEF DownloadNewPack
<1>2. Rests(m)'
  BY <1>1 DEF Rests
<1> QED
  BY <1>1, <1>2, StartAlike

\* One row is changed, and whether its package is in the list.
LEMMA RowRests ==
  ASSUME Inv, NEW m \in Hosts, NEW p \in Packs, Rests(m), dir' = dir,
         odd[m] \subseteq odd'[m],
         \A q \in Packs : q # p => /\ row'[m][q] = row[m][q]
                                   /\ q \in list'[m] <=> q \in list[m],
         row'[m][p].in => row'[m][p].hash # None,
         p \notin odd'[m] => Rested(m, p, row'[m][p], dir[m][p], list'[m])
  PROVE  Rests(m)'
<1>1. ASSUME NEW q \in Packs \ odd'[m] PROVE Rested(m, q, row'[m][q], dir'[m][q], list'[m])
  <2>1. CASE q = p
    BY <1>1, <2>1
  <2>2. CASE q # p
    BY <1>1, <2>2 DEF Rests, Rested
  <2> QED
    BY <2>1, <2>2
<1>2. \A q \in Packs : row'[m][q].in => row'[m][q].hash # None
  BY DEF Rests
<1> QED
  BY <1>1, <1>2 DEF Rests

LEMMA EnableAlike ==
  ASSUME Inv, Sums, NEW m \in Hosts, NEW p \in Packs, EnablePack(m, p) PROVE Sums'
<1> DEFINE x == [row[m][p] EXCEPT !.enabled = row[m][p].in]
<1>1. /\ Rests(m) /\ dir' = dir /\ odd' = odd /\ Start(m, "enable", "refresh", p)
      /\ list' = [list EXCEPT ![m] = list[m] \ {p}]
  BY BeginFields DEF EnablePack
<1>2. list'[m] = list[m] \ {p}
  BY <1>1, OfAll DEF OfHosts
<1>3. x.in = row[m][p].in /\ x.hash = row[m][p].hash /\ x.enabled = row[m][p].in
  BY Fields DEF RowType
<1>4. /\ row'[m][p] = x /\ \A q \in Packs : q # p => row'[m][q] = row[m][q]
      /\ \E y : row' = [row EXCEPT ![m] = y]
  <2>1. row' = [row EXCEPT ![m][p] = x]
    BY Host DEF EnablePack
  <2> HIDE DEF x
  <2> QED
    BY <2>1, RowCell, Zenon
<1> HIDE DEF x
<1>5. Rests(m)'
  <2>1. Rested(m, p, row[m][p], dir[m][p], list[m]) \/ p \in odd[m]
    BY <1>1 DEF Rests
  <2>2. p \notin odd'[m] => Rested(m, p, row'[m][p], dir[m][p], list'[m])
    BY <1>1, <1>2, <1>3, <1>4, <2>1 DEF Rested
  <2>3. row'[m][p].in => row'[m][p].hash # None
    BY <1>1, <1>3, <1>4 DEF Rests
  <2> QED
    BY <1>1, <1>2, <1>4, <2>2, <2>3, RowRests
<1>6. list' = list \/ \E y : list' = [list EXCEPT ![m] = y]
  BY <1>1
<1> QED
  BY <1>1, <1>4, <1>5, <1>6, StartAlike

LEMMA DisableAlike ==
  ASSUME Inv, Sums, NEW m \in Hosts, NEW p \in Packs, DisablePack(m, p) PROVE Sums'
<1> DEFINE x == [row[m][p] EXCEPT !.enabled = FALSE]
<1>1. /\ Rests(m) /\ dir' = dir /\ Start(m, "disable", "refresh", p)
      /\ list' = [list EXCEPT ![m] = list[m] \cup {p}]
  BY BeginFields DEF DisablePack
<1>2. list'[m] = list[m] \cup {p}
  BY <1>1, OfAll DEF OfHosts
<1>3. x.in = row[m][p].in /\ x.hash = row[m][p].hash /\ x.enabled = FALSE
  BY Fields DEF RowType
<1>4. /\ row'[m][p] = x /\ \A q \in Packs : q # p => row'[m][q] = row[m][q]
      /\ \E y : row' = [row EXCEPT ![m] = y]
  <2>1. row' = [row EXCEPT ![m][p] = x]
    BY Host DEF DisablePack
  <2> HIDE DEF x
  <2> QED
    BY <2>1, RowCell, Zenon
<1> HIDE DEF x
<1>5. /\ odd[m] \subseteq odd'[m]
      /\ odd' = odd \/ \E y : odd' = [odd EXCEPT ![m] = y]
  <2>1. CASE odd' = odd
    BY <2>1
  <2>2. CASE Mishap(m, p)
    BY <2>2, Odd
  <2> QED
    BY <2>1, <2>2 DEF DisablePack
<1>6. Rests(m)'
  <2>1. Rested(m, p, row[m][p], dir[m][p], list[m]) \/ p \in odd[m]
    BY <1>1 DEF Rests
  <2>2. p \notin odd'[m] => Rested(m, p, row'[m][p], dir[m][p], list'[m])
    BY <1>1, <1>2, <1>3, <1>4, <1>5, <2>1 DEF Rested
  <2>3. row'[m][p].in => row'[m][p].hash # None
    BY <1>1, <1>3, <1>4 DEF Rests
  <2> QED
    BY <1>1, <1>2, <1>4, <1>5, <2>2, <2>3, RowRests
<1>7. list' = list \/ \E y : list' = [list EXCEPT ![m] = y]
  BY <1>1
<1> QED
  BY <1>1, <1>4, <1>5, <1>6, <1>7, StartAlike

\* The row goes first, then the directory.
LEMMA RemoveAlike ==
  ASSUME Inv, Sums, NEW m \in Hosts, NEW p \in Packs, RemovePack(m, p) PROVE Sums'
<1>1. /\ Rests(m) /\ dir' = dir /\ odd' = odd /\ list' = list
      /\ Start(m, "remove", "rmdir", p)
  BY BeginFields DEF RemovePack
<1>2. /\ row'[m][p] = NoRow /\ \A q \in Packs : q # p => row'[m][q] = row[m][q]
      /\ \E y : row' = [row EXCEPT ![m] = y]
  <2>1. row' = [row EXCEPT ![m][p] = NoRow]
    BY DEF RemovePack
  <2> QED
    BY <2>1, RowCell, Zenon
<1>3. /\ job'[m].do = "remove" /\ job'[m].at = "rmdir" /\ job'[m].pack = p
      /\ job'[m].summary = {} /\ job'[m].todo = {}
      /\ \E x : job' = [job EXCEPT ![m] = x]
  BY <1>1, StartFields
<1>4. ~NoRow.in /\ ~NoRow.enabled
  BY DEF NoRow
<1>5. Hashed(m)'
  BY <1>1, <1>2, <1>3, <1>4 DEF Rests, Hashed, Headed, Is
<1>6. ASSUME NEW q \in Packs \ odd'[m]
      PROVE  Agreed(m, q)' /\ (m = Server => Held(q)')
  <2>1. Rested(m, q, row[m][q], dir[m][q], list[m])
    BY <1>1, <1>6 DEF Rests
  <2>2. CASE q = p
    <3>1. /\ Leaving(m, p)' /\ ~Arriving(m, p)' /\ ~Halfway(m, p)' /\ ~Written(m, p)'
          /\ ~Is(m, "cloneFiles")' /\ ~Is(m, "status")'
          /\ job'[m].at \notin Forcing \cup {"record"}
      BY <1>3 DEF Leaving, Arriving, Halfway, Written, Forcing, Is, Pack
    <3> QED
      BY <1>1, <1>2, <1>4, <2>1, <2>2, <3>1 DEF Rested, Agreed, Held
  <2>3. CASE q # p
    <3>1. Rested(m, q, row'[m][q], dir'[m][q], list'[m])
      BY <1>1, <1>2, <2>1, <2>3
    <3> QED
      BY <1>3, <2>3, <3>1, RestedAgreed
  <2> QED
    BY <2>2, <2>3
<1>7. m = Server => NoSync'
  BY <1>3 DEF NoSync, OnlySync
<1>8. m = Client => Agenda' /\ \A q \in Packs : Synced(q)'
  BY <1>3, OtherJob DEF OnlySync
<1>9. Alike(m)'
  BY <1>5, <1>6, <1>7, <1>8 DEF Alike
<1>10. \A h \in Hosts : h # m => Still(h)
  BY <1>1, <1>2, <1>3, OneHost
<1> QED
  BY <1>9, <1>10, Local

\* One directory is changed, with a mishap.
LEMMA OddRests ==
  ASSUME Inv, NEW m \in Hosts, NEW p \in Packs, Rests(m), Mishap(m, p), row' = row, list' = list,
         \A q \in Packs : q # p => dir'[m][q] = dir[m][q]
  PROVE  Rests(m)'
<1>1. odd'[m] = odd[m] \cup {p}
  BY Odd
<1> QED
  BY <1>1 DEF Rests

LEMMA UpgradeAlike ==
  ASSUME Inv, Sums, NEW m \in Hosts, NEW p \in Packs, UpgradePack(m, p) PROVE Sums'
<1>1. /\ Rests(m) /\ row' = row /\ list' = list
      /\ \/ Start(m, "upgrade", "refresh", p)
         \/ Start(m, "upgrade", "status", p) /\ dir[m][p].head # None
  <2>1. dir[m][p].branch # None => dir[m][p].head # None
    BY Fields DEF DirOK
  <2> QED
    BY <2>1, BeginFields DEF UpgradePack
<1>2. CASE dir' = dir /\ odd' = odd
  <2>1. Rests(m)'
    BY <1>1, <1>2 DEF Rests
  <2> QED
    BY <1>1, <1>2, <2>1, StartAlike
<1>3. CASE Mishap(m, p) /\ dir' = [dir EXCEPT ![m][p].tree = dir[m][p].branch]
  <2> DEFINE x == [dir[m][p] EXCEPT !.tree = dir[m][p].branch]
  <2>1. dir' = [dir EXCEPT ![m][p] = x]
    BY <1>3
  <2> HIDE DEF x
  <2>2. /\ \A q \in Packs : q # p => dir'[m][q] = dir[m][q]
        /\ \E y : dir' = [dir EXCEPT ![m] = y]
    BY <2>1, DirCell, Zenon
  <2>3. Rests(m)'
    BY <1>1, <1>3, <2>2, OddRests
  <2>4. p \in odd'[m] /\ \E y : odd' = [odd EXCEPT ![m] = y]
    BY <1>3, Odd
  <2> QED
    BY <1>1, <2>2, <2>3, <2>4, StartAlike
<1> QED
  BY <1>2, <1>3 DEF UpgradePack

\* Files may be changed at any time: nothing is claimed of them from then on.
LEMMA EditAlike ==
  ASSUME Inv, Sums, NEW m \in Hosts, NEW p \in Packs, Edit(m, p) PROVE Sums'
<1> DEFINE x == [dir[m][p] EXCEPT !.edited = TRUE]
<1>1. Alike(m) /\ row' = row /\ list' = list /\ Mishap(m, p)
  BY Synchronises DEF Edit
<1>2. /\ \A q \in Packs : q # p => dir'[m][q] = dir[m][q]
      /\ \A q \in Packs : dir'[m][q].head = dir[m][q].head
      /\ \E y : dir' = [dir EXCEPT ![m] = y]
  <2>1. dir' = [dir EXCEPT ![m][p] = x]
    BY DEF Edit
  <2>2. x.head = dir[m][p].head
    BY Fields DEF DirType
  <2> HIDE DEF x
  <2>3. /\ dir'[m][p] = x /\ \A q \in Packs : q # p => dir'[m][q] = dir[m][q]
        /\ \E y : dir' = [dir EXCEPT ![m] = y]
    BY <2>1, DirCell, Zenon
  <2> QED
    BY <2>2, <2>3
<1>3. odd'[m] = odd[m] \cup {p} /\ \E y : odd' = [odd EXCEPT ![m] = y]
  BY <1>1, Odd
<1>4. /\ job'[m].at = job[m].at /\ job'[m].pack = job[m].pack /\ job'[m].do = job[m].do
      /\ job'[m].want = job[m].want /\ job'[m].todo = job[m].todo
      /\ job'[m].summary = job[m].summary /\ job'[m].ok = job[m].ok
      /\ job'[m].cloned = job[m].cloned
      /\ job' = job \/ \E y : job' = [job EXCEPT ![m] = y]
  <2>1. CASE job' = job
    BY <2>1
  <2>2. CASE job' = [job EXCEPT ![m].raced = TRUE]
    <3> DEFINE k == [job[m] EXCEPT !.raced = TRUE]
    <3>1. job' = [job EXCEPT ![m] = k]
      BY <2>2
    <3>2. job[m] \in JobType
      BY Fields
    <3>3. /\ k.at = job[m].at /\ k.pack = job[m].pack /\ k.do = job[m].do
          /\ k.want = job[m].want /\ k.todo = job[m].todo
          /\ k.summary = job[m].summary /\ k.ok = job[m].ok /\ k.cloned = job[m].cloned
      BY <3>2 DEF JobType
    <3> HIDE DEF k
    <3>4. job'[m] = k
      BY <3>1, OfAll DEF OfHosts
    <3> QED
      BY <3>1, <3>3, <3>4
  <2> QED
    BY <2>1, <2>2 DEF Edit
<1>5. Hashed(m)'
  <2>1. job[m].at \in Headed \/ (Is(m, "insert") /\ job[m].cloned = "yes") => job[m].pack \in Packs
    BY Fields DEF Headed, Is, Busy
  <2> QED
    BY <1>1, <1>2, <1>4, <2>1 DEF Alike, Hashed, Is, Pack
<1>6. ASSUME NEW q \in Packs \ odd'[m] PROVE Agreed(m, q)' /\ (m = Server => Held(q)')
  <2>1. /\ Agreed(m, q) /\ (m = Server => Held(q))
        /\ dir'[m][q] = dir[m][q] /\ row'[m][q] = row[m][q] /\ list'[m] = list[m]
    BY <1>1, <1>2, <1>3, <1>6 DEF Alike
  <2> QED
    BY <1>4, <2>1 DEF Agreed, Held, Arriving, Leaving, Halfway, Written, Is, Pack
<1>7. m = Server => NoSync'
  BY <1>1, <1>4 DEF Alike, NoSync
<1>8. ASSUME m = Client PROVE Agenda' /\ \A q \in Packs \ odd'[Client] : Synced(q)'
  <2>1. Agenda /\ \A q \in Packs \ odd[Client] : Synced(q)
    BY <1>1, <1>8 DEF Alike
  <2>2. Agenda'
    BY <1>4, <1>8, <2>1 DEF Agenda
  <2>3. ASSUME NEW q \in Packs \ odd'[Client] PROVE Synced(q)'
    <3>1. Synced(q) /\ dir'[Client][q] = dir[Client][q] /\ list'[Client] = list[Client]
      BY <1>1, <1>2, <1>3, <1>8, <2>1, <2>3
    <3> QED
      BY <1>4, <1>8, <3>1 DEF Synced, InHand, InSummary, ToDo, Untouched, Delivered, Is, Pack
  <2> QED
    BY <2>2, <2>3
<1>9. Alike(m)'
  BY <1>5, <1>6, <1>7, <1>8 DEF Alike
<1>10. \A h \in Hosts : h # m => Still(h)
  BY <1>1, <1>2, <1>3, <1>4, OneHost
<1> QED
  BY <1>9, <1>10, Local

-----------------------------------------------------------------------------
(* Synchronisation, what happens around, and the three properties.          *)

\* The summary of a server names a package once.
LEMMA SummaryFacts ==
  ASSUME Inv, Sums
  PROVE  /\ \A e, f \in Summary(Server) : e.pack = f.pack => e = f
         /\ \A e \in Summary(Server) : e.hash # None
         /\ Summary(Server) \subseteq Entries
<1>1. Server \in Hosts /\ Hashed(Server)
  BY DEF Hosts, Sums, Alike
<1>2. \A p \in Packs : row[Server][p].hash \in Hashes
  BY <1>1, Fields DEF RowType
<1>3. \A e \in Summary(Server) :
        \E p \in Packs : row[Server][p].in /\ e = [pack |-> p, hash |-> row[Server][p].hash]
  BY DEF Summary
<1>4. \A e \in Summary(Server) :
        e.pack \in Packs /\ row[Server][e.pack].in /\ e.hash = row[Server][e.pack].hash
        /\ e = [pack |-> e.pack, hash |-> row[Server][e.pack].hash]
  BY <1>3
<1>5. \A e, f \in Summary(Server) : e.pack = f.pack => e = f
  BY <1>4
<1>6. \A e \in Summary(Server) : e.hash # None
  BY <1>1, <1>4 DEF Hashed
<1>7. Summary(Server) \subseteq Entries
  BY <1>2, <1>4 DEF Entries
<1> QED
  BY <1>5, <1>6, <1>7

LEMMA LoadSummaryAlike == ASSUME Inv, Sums, LoadSummary PROVE Sums'
<1> DEFINE m == Client
           j == [Idle EXCEPT !.do = "sync", !.summary = Summary(Server), !.todo = Summary(Server)]
           r == [p \in Packs |-> [row[m][p] EXCEPT !.enabled = FALSE]]
<1>1. m \in Hosts /\ job[m].at = "idle" /\ Alike(m) /\ dir' = dir /\ odd' = odd
  BY DEF LoadSummary, Free, Hosts, Sums
<1>2. Rests(m)
  BY <1>1, AtRest DEF Special
<1>3. /\ row'[m] = r /\ \E y : row' = [row EXCEPT ![m] = y]
  <2>1. row' = [row EXCEPT ![m] = r]
    BY DEF LoadSummary
  <2> HIDE DEF r
  <2> QED
    BY <1>1, <2>1, OfAll DEF OfHosts
<1>4. \A p \in Packs : /\ row'[m][p].in = row[m][p].in /\ row'[m][p].hash = row[m][p].hash
                       /\ ~row'[m][p].enabled
  <2>1. \A p \in Packs : row[m][p] \in RowType
    BY <1>1, Fields
  <2> QED
    BY <1>3, <2>1 DEF RowType
<1>5. /\ list'[m] = list[m] \cup {p \in Packs : row[m][p].in}
      /\ \E y : list' = [list EXCEPT ![m] = y]
  <2>1. list' = [list EXCEPT ![m] = list[m] \cup {p \in Packs : row[m][p].in}]
    BY DEF LoadSummary
  <2> QED
    BY <1>1, <2>1, OfAll DEF OfHosts
<1>6. /\ j \in JobType /\ j.do = "sync" /\ j.ok /\ j.todo = Summary(Server)
      /\ j.summary = Summary(Server)
  <2>1. Idle \in JobType /\ Idle.ok
    BY IdleJob DEF Idle
  <2> HIDE DEF Idle
  <2> QED
    BY <2>1, SummaryFacts DEF JobType
<1>7. NextPack(m, j)
  BY DEF LoadSummary
<1> HIDE DEF j, r
<1>8. /\ job'[m].summary = j.summary
      /\ Ends(job'[m], j) \/ \E e \in j.todo : Takes(job'[m], j, e, row[m][e.pack].in)
      /\ \E x : job' = [job EXCEPT ![m] = x]
  BY <1>1, <1>6, <1>7, NextFields
<1>9. job'[m].at \in {"done", "enable", "clone"} /\ (job'[m].at = "enable" => job'[m].want # None)
  BY <1>6, <1>8, SummaryFacts DEF Ends, Takes
<1>10. Rests(m)'
  <2>1. \A p \in Packs : row'[m][p].in => row'[m][p].hash # None
    BY <1>2, <1>4 DEF Rests
  <2>2. ASSUME NEW p \in Packs \ odd'[m]
        PROVE  Rested(m, p, row'[m][p], dir'[m][p], list'[m])
    <3>1. Rested(m, p, row[m][p], dir[m][p], list[m])
      BY <1>1, <1>2, <2>2 DEF Rests
    <3> QED
      BY <1>1, <1>4, <3>1 DEF Rested
  <2> QED
    BY <2>1, <2>2 DEF Rests
<1>11. Hashed(m)' /\ \A p \in Packs \ odd'[m] : Agreed(m, p)'
  <2>1. job'[m].at \in Calm /\ job'[m].at \notin Headed /\ job'[m].at # "insert"
    BY <1>9 DEF Calm, Headed
  <2>2. \A e \in job'[m].summary : e.hash # None
    BY <1>6, <1>8, SummaryFacts
  <2> QED
    BY <1>1, <1>9, <1>10, <2>1, <2>2, CalmAgreed DEF Rests, Hashed, Is
<1>12. Agenda'
  BY <1>6, <1>7, SummaryFacts, NextAgenda
<1>13. ASSUME NEW p \in Packs \ odd'[m] PROVE Synced(p)'
  <2>1. p \in list'[Client] \/ dir'[Client][p].tree = None
    BY <1>1, <1>2, <1>5, <1>13 DEF Rests, Rested
  <2> QED
    BY <1>6, <1>7, <2>1, NextSynced
<1>14. Alike(m)'
  BY <1>11, <1>12, <1>13, PackagesConstants DEF Alike
<1>15. \A h \in Hosts : h # m => Still(h)
  BY <1>1, <1>3, <1>5, <1>8, OneHost
<1> QED
  BY <1>1, <1>14, <1>15, Local

LEMMA EnableSyncedAlike == ASSUME Inv, Sums, EnableSynced PROVE Sums'
<1> DEFINE m == Client
           j == job[m]
           p == Pack(m)
<1>1. /\ m \in Hosts /\ j.at = "enable" /\ Alike(m) /\ j.do = "sync" /\ j \in JobType
      /\ p \in Packs /\ row[m][p].in /\ Agenda /\ dir' = dir /\ odd' = odd
      /\ \A q \in Packs \ odd[m] : Synced(q)
  <2>1. m \in Hosts /\ j.at = "enable" /\ Alike(m) /\ dir' = dir /\ odd' = odd
    BY DEF EnableSynced, Is, Hosts, Sums
  <2> QED
    BY <2>1, Fields DEF Alike, Agenda, OnlySync, Pack, Busy
<1>2. /\ row'[m][p].in /\ row'[m][p].hash = j.want /\ row'[m][p].enabled
      /\ \A q \in Packs : q # p => row'[m][q] = row[m][q]
      /\ \E y : row' = [row EXCEPT ![m] = y]
  <2> DEFINE y  == [row[m][p] EXCEPT !.hash = j.want]
             r1 == [row[m] EXCEPT ![p] = y]
             w1 == [row EXCEPT ![m] = r1]
             z  == [y EXCEPT !.enabled = TRUE]
  <2>1. row' = [w1 EXCEPT ![m] = [w1[m] EXCEPT ![p] = [w1[m][p] EXCEPT !.enabled = TRUE]]]
    BY DEF EnableSynced, Pack
  <2>2. OfHosts(row) /\ row[m] \in [Packs -> RowType] /\ row[m][p] \in RowType
    BY <1>1, OfAll, Fields
  <2>3. z.in /\ z.hash = j.want /\ z.enabled
    BY <1>1, <2>2 DEF RowType
  <2> HIDE DEF y
  <2>4. r1[p] = y /\ [r1 EXCEPT ![p] = z] = [row[m] EXCEPT ![p] = z]
    BY <1>1, <2>2
  <2> HIDE DEF r1
  <2>5. w1[m] = r1 /\ \A v : [w1 EXCEPT ![m] = v] = [row EXCEPT ![m] = v]
    BY <1>1, <2>2 DEF OfHosts
  <2> HIDE DEF w1
  <2>6. row' = [w1 EXCEPT ![m] = [r1 EXCEPT ![p] = z]]
    BY <2>1, <2>4, <2>5
  <2>7. row' = [row EXCEPT ![m] = [row[m] EXCEPT ![p] = z]]
    BY <2>4, <2>5, <2>6
  <2> HIDE DEF z
  <2>8. row' = [row EXCEPT ![m][p] = z]
    BY <2>7
  <2>9. p \in Packs
    BY <1>1
  <2>10. /\ row'[m][p] = z /\ \A q \in Packs : q # p => row'[m][q] = row[m][q]
         /\ \E v : row' = [row EXCEPT ![m] = v]
    <3> HIDE DEF p, j
    <3> QED
      BY <1>1, <2>8, <2>9, RowCell, Zenon
  <2> QED
    BY <2>3, <2>10
<1>3. list'[m] = list[m] \ {p} /\ \E y : list' = [list EXCEPT ![m] = y]
  <2>1. list' = [list EXCEPT ![m] = list[m] \ {p}]
    BY DEF EnableSynced, Pack
  <2> QED
    BY <1>1, <2>1, OfAll DEF OfHosts
<1>4. j.want # None /\ [pack |-> p, hash |-> j.want] \in j.summary \ j.todo
  BY <1>1 DEF Alike, Hashed, Agenda, Is, Pack
<1>5. \A q \in Packs : row'[m][q].in => row'[m][q].hash # None
  BY <1>1, <1>2, <1>4 DEF Alike, Hashed
<1>6. Rests(m)'
  <2>1. ASSUME NEW q \in Packs \ odd'[m]
        PROVE  Rested(m, q, row'[m][q], dir'[m][q], list'[m])
    <3>1. Rested(m, q, row[m][q], dir[m][q], list[m])
      BY <1>1, <2>1, Elsewhere DEF Special
    <3>2. CASE q = p
      BY <1>1, <1>2, <1>3, <3>1, <3>2, PackagesConstants DEF Rested
    <3>3. CASE q # p
      BY <1>1, <1>2, <1>3, <3>1, <3>3 DEF Rested
    <3> QED
      BY <3>2, <3>3
  <2> QED
    BY <1>5, <2>1 DEF Rests
<1>7. CASE Go(m, "status")
  <2>1. /\ job'[m].at = "status" /\ job'[m].pack = j.pack /\ job'[m].do = j.do
        /\ job'[m].want = j.want /\ job'[m].todo = j.todo
        /\ job'[m].summary = j.summary /\ job'[m].ok = j.ok
        /\ \E y : job' = [job EXCEPT ![m] = y]
    BY <1>1, <1>7, GoFields
  <2>2. Hashed(m)'
    BY <1>1, <1>5, <2>1 DEF Alike, Hashed, Headed, Is
  <2>3. Agenda' /\ \A q \in Packs \ odd'[m] : Synced(q)'
    <3> DEFINE S == Packs \ odd'[Client]
    <3>1. S \subseteq Packs \ odd[Client]
      BY <1>1
    <3>2. /\ job[Client].at \in Syncing /\ job'[Client].at \in Syncing
          /\ job'[Client].at # "checkoutFiles" /\ job'[Client].at \notin OnlySync
      BY <1>1, <2>1 DEF Syncing, Updating, Forcing, OnlySync
    <3>3. \A q \in S : q = Pack(Client) => q \notin list'[Client]
      BY <1>3
    <3> HIDE DEF S
    <3>4. Agenda' /\ \A q \in S : Synced(q)'
      BY <1>1, <1>3, <2>1, <3>1, <3>2, <3>3, ClientSame
    <3> QED
      BY <3>4 DEF S
  <2>6. ASSUME NEW q \in Packs \ odd'[m] PROVE Agreed(m, q)'
    <3>1. Rested(m, q, row'[m][q], dir'[m][q], list'[m])
      BY <1>6, <2>6 DEF Rests
    <3>2. CASE q # p
      <4>1. job'[m].pack # q
        BY <2>1, <3>2 DEF Pack
      <4> QED
        BY <1>1, <3>1, <4>1, RestedAgreed
    <3>3. CASE q = p
      <4>1. /\ ~Arriving(m, q)' /\ ~Leaving(m, q)' /\ ~Halfway(m, q)' /\ ~Written(m, q)'
            /\ ~Is(m, "cloneFiles")' /\ job'[m].at \notin Forcing \cup {"record"}
        BY <2>1 DEF Arriving, Leaving, Halfway, Written, Forcing, Is
      <4>2. row'[m][q].in
        BY <1>2, <3>3
      <4> QED
        BY <3>1, <4>1, <4>2 DEF Rested, Agreed
    <3> QED
      BY <3>2, <3>3
  <2>4. Alike(m)'
    BY <2>2, <2>3, <2>6, PackagesConstants DEF Alike
  <2>5. \A h \in Hosts : h # m => Still(h)
    BY <1>1, <1>2, <1>3, <2>1, OneHost
  <2> QED
    BY <1>1, <2>4, <2>5, Local
<1>8. CASE dir[m][p].head = j.want /\ NextPack(m, j)
  <2>1. /\ job'[m].summary = j.summary
        /\ Ends(job'[m], j) \/ \E e \in j.todo : Takes(job'[m], j, e, row[m][e.pack].in)
        /\ \E x : job' = [job EXCEPT ![m] = x]
    BY <1>1, <1>8, NextFields
  <2>2. \A e \in j.summary : e.hash # None
    BY <1>1 DEF Alike, Hashed
  <2>3. /\ job'[m].at \in {"done", "enable", "clone"}
        /\ job'[m].at = "enable" => job'[m].want # None
    BY <1>1, <2>1, <2>2 DEF Ends, Takes, Agenda
  <2>4. Hashed(m)' /\ \A q \in Packs \ odd'[m] : Agreed(m, q)'
    <3>1. job'[m].at \in Calm /\ job'[m].at \notin Headed /\ job'[m].at # "insert"
      BY <2>3 DEF Calm, Headed
    <3> QED
      BY <1>1, <1>5, <1>6, <2>1, <2>2, <2>3, <3>1, CalmAgreed DEF Hashed, Is
  <2>5. Agenda'
    BY <1>1, <1>8, NextAgenda DEF Agenda
  <2>6. ASSUME NEW q \in Packs \ odd'[m] PROVE Synced(q)'
    <3>1. Synced(q)
      BY <1>1, <2>6
    <3>2. ASSUME j.ok, \E e \in j.summary : e.pack = q, ~(\E e \in j.todo : e.pack = q)
          PROVE  /\ q \notin list'[Client]
                 /\ \E e \in j.summary : e.pack = q /\ e.hash = dir'[Client][q].head
      <4>1. CASE q = p
        <5> DEFINE e == [pack |-> p, hash |-> j.want]
        <5>1. e \in j.summary /\ e.pack = q /\ e.hash = dir'[Client][q].head
          BY <1>1, <1>4, <1>8, <4>1
        <5> QED
          BY <1>3, <4>1, <5>1
      <4>2. CASE q # p
        BY <1>1, <1>3, <3>1, <3>2, <4>2 DEF Synced, InHand, InSummary, ToDo, Delivered
      <4> QED
        BY <4>1, <4>2
    <3>3. ASSUME j.ok, (\E e \in j.todo : e.pack = q) \/ ~(\E e \in j.summary : e.pack = q)
          PROVE  q \in list'[Client] \/ dir'[Client][q].tree = None
      <4>1. q # p
        <5> DEFINE e == [pack |-> p, hash |-> j.want]
        <5>1. e \in j.summary /\ e \notin j.todo /\ e.pack = p
          BY <1>4
        <5> HIDE DEF e
        <5>2. ASSUME NEW f \in j.todo, f.pack = p PROVE FALSE
          BY <1>1, <5>1, <5>2 DEF Agenda
        <5> QED
          BY <3>3, <5>1, <5>2
      <4> QED
        BY <1>1, <1>3, <2>6, <3>1, <3>3, <4>1 DEF Synced, InHand, InSummary, ToDo, Untouched
    <3> QED
      BY <1>1, <1>8, <3>2, <3>3, NextSynced
  <2>7. Alike(m)'
    BY <2>4, <2>5, <2>6, PackagesConstants DEF Alike
  <2>8. \A h \in Hosts : h # m => Still(h)
    BY <1>1, <1>2, <1>3, <2>1, OneHost
  <2> QED
    BY <1>1, <2>7, <2>8, Local
<1> QED
  BY <1>7, <1>8 DEF EnableSynced

LEMMA PublishAlike == ASSUME Sums, NEW p \in Packs, Publish(p) PROVE Sums'
  BY StillAlike DEF Publish, Still, Sums

LEMMA StutterAlike == ASSUME Sums, UNCHANGED vars PROVE Sums'
  BY StillAlike DEF vars, Still, Sums

LEMMA InitAlike == ASSUME Init PROVE Sums
<1>1. PICK here \in SUBSET Packs :
        /\ row = [m \in Hosts |-> [p \in Packs |->
             IF m = Server /\ p \in here THEN [in |-> TRUE, hash |-> 1, enabled |-> TRUE] ELSE NoRow]]
        /\ dir = [m \in Hosts |-> [p \in Packs |->
             IF m = Server /\ p \in here THEN Forced(Cloned(1)) ELSE NoDir]]
  BY DEF Init
<1>2. \A m \in Hosts : list[m] = {} /\ job[m] = Idle
  BY DEF Init
<1>3. /\ Forced(Cloned(1)).head = 1 /\ Forced(Cloned(1)).tree = 1
      /\ ~Forced(Cloned(1)).edited
      /\ NoDir.head = None /\ NoDir.tree = None /\ ~NoDir.edited
      /\ ~NoRow.in /\ ~NoRow.enabled /\ 1 # None
  BY DEF Forced, Cloned, NoDir, NoRow, None
<1>4. Idle.do = "nothing" /\ Idle.at = "idle" /\ Idle.summary = {} /\ Idle.todo = {}
  BY DEF Idle
<1>5. ASSUME NEW m \in Hosts, NEW p \in Packs
      PROVE  \/ /\ row[m][p] = [in |-> TRUE, hash |-> 1, enabled |-> TRUE]
                /\ dir[m][p] = Forced(Cloned(1))
             \/ row[m][p] = NoRow /\ dir[m][p] = NoDir
  BY <1>1
<1>6. ASSUME NEW m \in Hosts, NEW p \in Packs
      PROVE  /\ dir[m][p].tree = dir[m][p].head /\ ~dir[m][p].edited
             /\ row[m][p].in => dir[m][p].tree # None
             /\ ~row[m][p].in => dir[m][p].tree = None
             /\ row[m][p].in => row[m][p].hash # None /\ row[m][p].hash = dir[m][p].tree
  BY <1>3, <1>5
<1>7. ASSUME NEW m \in Hosts PROVE Alike(m)
  <2>1. Hashed(m)
    BY <1>2, <1>4, <1>6 DEF Hashed, Headed, Is
  <2>2. ASSUME NEW p \in Packs PROVE Agreed(m, p)
    <3>1. /\ ~Arriving(m, p) /\ ~Leaving(m, p) /\ ~Is(m, "cloneFiles") /\ ~Is(m, "status")
          /\ job[m].at \notin Forcing \cup {"record"}
      BY <1>2, <1>4 DEF Arriving, Leaving, Forcing, Is
    <3> QED
      BY <1>2, <1>6, <3>1 DEF Agreed
  <2>3. m = Server => NoSync /\ \A p \in Packs : Held(p)
    BY <1>2, <1>4, <1>6 DEF NoSync, OnlySync, Held
  <2>4. m = Client => Agenda /\ \A p \in Packs : Synced(p)
    BY <1>2, <1>4 DEF Agenda, OnlySync, Synced
  <2> QED
    BY <2>1, <2>2, <2>3, <2>4 DEF Alike
<1> QED
  BY <1>7 DEF Sums

LEMMA NextAlike == ASSUME Inv, Sums, [Next]_vars PROVE Sums'
<1>1. CASE UNCHANGED vars
  BY <1>1, StutterAlike
<1>2. ASSUME NEW m \in Hosts,
             \/ Clone(m) \/ CloneFiles(m) \/ Insert(m) \/ CheckStatus(m)
             \/ Pull(m) \/ PullFiles(m) \/ Checkout(m) \/ CheckoutFiles(m)
             \/ Refresh(m) \/ Record(m) \/ RemoveDir(m) \/ Restart(m)
      PROVE  Sums'
  BY <1>2, CloneAlike, CloneFilesAlike, InsertAlike, CheckStatusAlike, PullAlike,
     PullFilesAlike, CheckoutAlike, CheckoutFilesAlike, RefreshAlike, RecordAlike,
     RemoveDirAlike, RestartAlike
<1>3. ASSUME NEW m \in Hosts, NEW p \in Packs,
             \/ DownloadNewPack(m, p) \/ EnablePack(m, p) \/ DisablePack(m, p)
             \/ UpgradePack(m, p) \/ RemovePack(m, p) \/ Edit(m, p)
      PROVE  Sums'
  BY <1>3, DownloadAlike, EnableAlike, DisableAlike, UpgradeAlike, RemoveAlike, EditAlike
<1>4. CASE LoadSummary \/ EnableSynced \/ DownloadComplete
  BY <1>4, LoadSummaryAlike, EnableSyncedAlike, DownloadCompleteAlike
<1>5. CASE \E p \in Packs : Publish(p)
  BY <1>5, PublishAlike
<1> QED
  BY <1>1, <1>2, <1>3, <1>4, <1>5 DEF Next

\* What the MD5 counts of a package.
LEMMA CountedIs ==
  ASSUME Inv, NEW m \in Hosts, NEW p \in Packs
  PROVE  /\ p \in list[m] \/ dir[m][p].tree = None => \A c \in Counted(m) : c[1] # p
         /\ p \notin list[m] /\ dir[m][p].tree # None /\ ~dir[m][p].edited
              => <<p, dir[m][p].tree, FALSE>> \in Counted(m)
<1>1. \A c \in Counted(m) : /\ c[1] \in Packs /\ c[1] \notin list[m] /\ dir[m][c[1]].tree # None
  BY DEF Counted
<1>2. ~dir[m][p].edited => dir[m][p].edited = FALSE
  <2>1. dir[m][p] \in DirType
    BY Fields
  <2> QED
    BY <2>1 DEF DirType
<1>3. p \notin list[m] /\ dir[m][p].tree # None
        => <<p, dir[m][p].tree, dir[m][p].edited>> \in Counted(m)
  BY DEF Counted
<1> QED
  BY <1>1, <1>2, <1>3

LEMMA AdvertisedHolds == ASSUME Inv, Sums PROVE Advertised
<1> SUFFICES ASSUME Free(Server), NEW p \in Packs \ odd[Server]
             PROVE  IF row[Server][p].in /\ row[Server][p].enabled
                    THEN <<p, row[Server][p].hash, FALSE>> \in Counted(Server)
                    ELSE \A c \in Counted(Server) : c[1] # p
  BY DEF Advertised
<1>1. Server \in Hosts /\ Alike(Server) /\ job[Server].at = "idle"
  BY DEF Hosts, Sums, Free
<1>2. Rested(Server, p, row[Server][p], dir[Server][p], list[Server])
  BY <1>1, AtRest DEF Rests, Special
<1>3. RowOK(row[Server][p], p \in list[Server])
  BY <1>1, Fields
<1>4. CASE row[Server][p].in /\ row[Server][p].enabled
  <2>1. /\ p \notin list[Server] /\ ~dir[Server][p].edited /\ dir[Server][p].tree # None
        /\ dir[Server][p].tree = row[Server][p].hash
    BY <1>2, <1>4 DEF Rested
  <2>2. <<p, dir[Server][p].tree, FALSE>> \in Counted(Server)
    BY <1>1, <2>1, CountedIs
  <2> QED
    BY <1>4, <2>1, <2>2
<1>5. CASE ~(row[Server][p].in /\ row[Server][p].enabled)
  <2>1. p \in list[Server] \/ dir[Server][p].tree = None
    BY <1>2, <1>3, <1>5 DEF Rested, RowOK
  <2> QED
    BY <1>1, <1>5, <2>1, CountedIs
<1> QED
  BY <1>4, <1>5

LEMMA SyncDeliversHolds == ASSUME Inv, Sums PROVE SyncDelivers
<1> SUFFICES ASSUME Is(Client, "done"), job[Client].ok, NEW p \in Packs \ odd[Client]
             PROVE  IF \E e \in job[Client].summary : e.pack = p
                    THEN \E e \in job[Client].summary :
                           /\ e.pack = p /\ dir[Client][p].head = e.hash
                           /\ dir[Client][p].cut \/ <<p, e.hash, FALSE>> \in Counted(Client)
                    ELSE \A c \in Counted(Client) : c[1] # p
  BY DEF SyncDelivers
<1>1. Client \in Hosts /\ Alike(Client) /\ job[Client].at = "done"
  BY DEF Hosts, Sums, Is
<1>2. Agenda /\ Synced(p) /\ Agreed(Client, p) /\ \A e \in job[Client].summary : e.hash # None
  BY <1>1 DEF Alike, Hashed
<1>3. job[Client].do = "sync" /\ ~ToDo(p) /\ ~InHand(p)
  BY <1>1, <1>2 DEF Agenda, OnlySync, ToDo, InHand, Syncing, Updating, Forcing
<1>4. CASE \E e \in job[Client].summary : e.pack = p
  <2>1. Delivered(p)
    BY <1>2, <1>3, <1>4 DEF Synced, InSummary
  <2>2. PICK e \in job[Client].summary : e.pack = p /\ e.hash = dir[Client][p].head
    BY <2>1 DEF Delivered
  <2>3. ASSUME ~dir[Client][p].cut PROVE <<p, e.hash, FALSE>> \in Counted(Client)
    <3>1. /\ p \notin list[Client] /\ ~dir[Client][p].edited /\ ~Halfway(Client, p)
          /\ e.hash # None
      BY <1>1, <1>2, <2>1 DEF Delivered, Agreed, Halfway
    <3>2. dir[Client][p].tree = e.hash
      BY <1>2, <2>2, <2>3, <3>1 DEF Agreed
    <3>3. <<p, dir[Client][p].tree, FALSE>> \in Counted(Client)
      BY <1>1, <3>1, <3>2, CountedIs
    <3> QED
      BY <3>2, <3>3
  <2> QED
    BY <1>4, <2>2, <2>3
<1>5. CASE ~\E e \in job[Client].summary : e.pack = p
  <2>1. p \in list[Client] \/ dir[Client][p].tree = None
    BY <1>2, <1>3, <1>5 DEF Synced, InSummary, Untouched, Agreed
  <2> QED
    BY <1>1, <1>5, <2>1, CountedIs
<1> QED
  BY <1>4, <1>5

\* One count of a package: nobody counts it twice.
LEMMA OneCount ==
  ASSUME NEW m, NEW c \in Counted(m), NEW d \in Counted(m), c[1] = d[1] PROVE c = d
  BY DEF Counted

LEMMA SyncedGetsInHolds == ASSUME Inv, Sums PROVE SyncedGetsIn
<1> SUFFICES ASSUME Is(Client, "done"), job[Client].ok, odd[Client] = {}, odd[Server] = {},
                    \A p \in Packs : ~dir[Client][p].cut,
                    Free(Server), served = Counted(Server),
                    job[Client].summary = Summary(Server)
             PROVE  Counted(Client) = Counted(Server)
  BY DEF SyncedGetsIn
<1>1. \A p \in Packs :
        IF row[Server][p].in /\ row[Server][p].enabled
        THEN <<p, row[Server][p].hash, FALSE>> \in Counted(Server)
        ELSE \A c \in Counted(Server) : c[1] # p
  BY AdvertisedHolds DEF Advertised
<1>2. \A p \in Packs :
        IF \E e \in Summary(Server) : e.pack = p
        THEN \E e \in Summary(Server) : e.pack = p /\ <<p, e.hash, FALSE>> \in Counted(Client)
        ELSE \A c \in Counted(Client) : c[1] # p
  <2> DEFINE S == job[Client].summary
  <2>1. \A p \in Packs \ odd[Client] :
          IF \E e \in S : e.pack = p
          THEN \E e \in S : e.pack = p /\ <<p, e.hash, FALSE>> \in Counted(Client)
          ELSE \A c \in Counted(Client) : c[1] # p
    BY SyncDeliversHolds DEF SyncDelivers
  <2>2. S = Summary(Server)
    OBVIOUS
  <2> HIDE DEF S
  <2> QED
    BY <2>1, <2>2
<1>3. \A m : \A c \in Counted(m) : c[1] \in Packs
  BY DEF Counted
<1>4. ASSUME NEW p \in Packs
      PROVE  /\ (\E e \in Summary(Server) : e.pack = p) <=> row[Server][p].in /\ row[Server][p].enabled
             /\ \A e \in Summary(Server) : e.pack = p => e.hash = row[Server][p].hash
  <2>1. \A e \in Summary(Server) :
          \E q \in Packs : /\ row[Server][q].in /\ row[Server][q].enabled
                           /\ e = [pack |-> q, hash |-> row[Server][q].hash]
    BY DEF Summary
  <2>2. \A e \in Summary(Server) : /\ row[Server][e.pack].in /\ row[Server][e.pack].enabled
                                   /\ e.hash = row[Server][e.pack].hash
    BY <2>1
  <2>3. row[Server][p].in /\ row[Server][p].enabled
          => [pack |-> p, hash |-> row[Server][p].hash] \in Summary(Server)
    BY DEF Summary
  <2> QED
    BY <2>2, <2>3
<1>5. ASSUME NEW c \in Counted(Client) PROVE c \in Counted(Server)
  <2> DEFINE p == c[1]
  <2>1. p \in Packs /\ \E e \in Summary(Server) : e.pack = p
    BY <1>2, <1>3
  <2>2. PICK e \in Summary(Server) : e.pack = p /\ <<p, e.hash, FALSE>> \in Counted(Client)
    BY <1>2, <2>1
  <2>3. c = <<p, e.hash, FALSE>>
    BY <2>2, OneCount
  <2>4. <<p, row[Server][p].hash, FALSE>> \in Counted(Server)
    BY <1>1, <1>4, <2>1
  <2> QED
    BY <1>4, <2>1, <2>2, <2>3, <2>4
<1>6. ASSUME NEW c \in Counted(Server) PROVE c \in Counted(Client)
  <2> DEFINE p == c[1]
  <2>1. p \in Packs /\ row[Server][p].in /\ row[Server][p].enabled
    BY <1>1, <1>3
  <2>2. c = <<p, row[Server][p].hash, FALSE>>
    BY <1>1, <2>1, OneCount
  <2>3. PICK e \in Summary(Server) : e.pack = p /\ <<p, e.hash, FALSE>> \in Counted(Client)
    BY <1>2, <1>4, <2>1
  <2> QED
    BY <1>4, <2>1, <2>2, <2>3
<1> QED
  BY <1>5, <1>6

LEMMA SpecSums == Spec => [](Inv /\ Sums)
<1>1. Init => Inv /\ Sums
  BY InitInv, InitAlike
<1>2. Inv /\ Sums /\ [Next]_vars => (Inv /\ Sums)'
  BY NextInv, NextAlike
<1> QED
  BY <1>1, <1>2, PTL DEF Spec

\* What the summary of a server says of a package is what its MD5 counts:
\* between its commands table, directory and disabled_packs never disagree
\* about a package, whatever was installed, upgraded, disabled, removed or
\* cut off by a crash or a failed checkout, except after one of the mishaps in odd.
THEOREM Summaries == Spec => []Advertised
<1>1. Inv /\ Sums => Advertised
  BY AdvertisedHolds
<1> QED
  BY <1>1, SpecSums, PTL

\* PackMan::loadSummary leaves exactly the packages of the summary with HEAD
\* at its hashes, when no git operation of this synchronisation failed, from
\* whatever the client had before: clones, pulls and checkouts that failed or
\* crashed between HEAD and the files included.  The files are those of the
\* hash, unless a checkout of that very package was once cut after HEAD had
\* moved: packman.cpp:87 then takes the package to be up to date.
THEOREM Synchronised == Spec => []SyncDelivers
<1>1. Inv /\ Sums => SyncDelivers
  BY SyncDeliversHolds
<1> QED
  BY <1>1, SpecSums, PTL

\* package.rst:28-33: the client then has the MD5 of the server, if that has
\* not changed in the meantime, without mishaps, and if no package on the
\* client has the files of a checkout that was cut.
THEOREM GetsIn == Spec => []SyncedGetsIn
<1>1. Inv /\ Sums => SyncedGetsIn
  BY SyncedGetsInHolds
<1> QED
  BY <1>1, SpecSums, PTL
=============================================================================
