------------------------------- MODULE FileScan -------------------------------
(***************************************************************************)
(* The scan of the directories the user let the proactive mode look at:    *)
(* capture() of the file adapter in                                        *)
(* apps/desktop/src/main/proactive-source-adapters.ts.  Every call to the  *)
(* file system is awaited, and other programs move, link and lock files in *)
(* between.  A path is the sequence of its names; a name is a number, in   *)
(* the order localeCompare gives them, and DotDot one that begins with two *)
(* dots.                                                                   *)
(***************************************************************************)
EXTENDS Naturals, Sequences, FiniteSets, SequencesExt

CONSTANTS
  Place,       \* the paths that can be there
  FirstTree,   \* what is at each of them at first
  Configured,  \* the roots the user selected (fileRoots)
  Asks,        \* the values of options.roots: <<>> when the caller gives none
  ScanItems,   \* maxItems
  ScanDepth,   \* maxDepth
  Swap,        \* what other programs do: pairs of a path and what comes there
  MaxSwaps     \* bound

DotDot == 0

\* What is at a path: `to` is where a link leads (a path without links), `open` whether
\* the user may read it.
Entry == [kind : {"dir", "file", "link", "gone"}, to : Place, open : BOOLEAN]

ASSUME FileScanAssumption ==
  /\ Place \subseteq Seq(Nat) /\ <<>> \notin Place /\ IsFiniteSet(Place)
  /\ FirstTree \in [Place -> Entry] /\ Swap \subseteq Place \X Entry
  /\ Configured \in Seq(Place) /\ Configured # <<>>
  /\ Asks \subseteq Seq(Place)
  /\ ScanItems \in Nat \ {0} /\ ScanDepth \in Nat /\ MaxSwaps \in Nat

VARIABLES tree,    \* the file system
          scan,    \* the capture
          swaps    \* what other programs did to it, counted

scanVars == <<tree, scan, swaps>>

ScanEnd == {"complete", "partial", "aborted", "not_ready", "symlink_denied", "access_denied", "out_of_scope"}
Item == [path : Seq(Nat), root : Seq(Nat), depth : Nat]
NoItem == [path |-> <<>>, root |-> <<>>, depth |-> 0]

FileScanTypeOK ==
  /\ tree \in [Place -> Entry]
  /\ swaps \in 0..MaxSwaps
  /\ scan.pc \in {"probe", "authorize", "check", "seed", "take", "resolve", "record", "list"} \cup ScanEnd
  /\ scan.asked \in Asks /\ scan.todo \in Seq(Seq(Nat)) /\ scan.allowed \subseteq Seq(Nat)
  /\ scan.queue \in Seq(Item) /\ scan.item \in Item
  /\ scan.visited \subseteq Seq(Nat) /\ scan.records \in Seq(Item) /\ scan.skipped \in Nat

FileScanInit ==
  /\ tree = FirstTree
  /\ \E asked \in Asks :
       scan = [pc |-> "probe", asked |-> asked, todo |-> <<>>, allowed |-> {}, queue |-> <<>>, item |-> NoItem,
               visited |-> {}, records |-> <<>>, skipped |-> 0]
  /\ swaps = 0

-----------------------------------------------------------------------------
(* The calls to the file system *)

Prefix(p, i) == SubSeq(p, 1, i)

\* realpath: the first link on the way is replaced by where it leads.
Links(p) == {i \in 1..Len(p) : Prefix(p, i) \in Place /\ tree[Prefix(p, i)].kind = "link"}
Real(p) ==
  IF Links(p) = {} THEN p
  ELSE LET i == Min(Links(p))
       IN tree[Prefix(p, i)].to \o SubSeq(p, i + 1, Len(p))

\* lstat follows the links on the way, but not the last one.
Located(p) == IF Len(p) <= 1 THEN p ELSE Append(Real(Front(p)), Last(p))
There(p) ==
  /\ p \in Place /\ tree[p].kind # "gone"
  /\ \A i \in 1..(Len(p) - 1) : tree[Prefix(p, i)].kind = "dir"
KindAt(p) == IF There(Located(p)) THEN tree[Located(p)].kind ELSE "gone"

\* readdir
Names(p) == {n \in {Last(q) : q \in Place} : Append(p, n) \in Place /\ tree[Append(p, n)].kind # "gone"}
CanRead(p) == There(p) /\ tree[p].open

-----------------------------------------------------------------------------
(* isWithinRoot: relative(root, candidate) is empty or does not begin with *)
(* "..", which a name may do as well.                                      *)
Within(root, p) == IsPrefix(root, p) /\ (Len(p) > Len(root) => p[Len(root) + 1] # DotDot)

\* A root is readable: not a link itself, and what it resolves to can be accessed.
Readable(r) == KindAt(r) \notin {"link", "gone"} /\ CanRead(Real(r))

RootsOf == IF scan.asked = <<>> THEN Configured ELSE scan.asked
Goes(pc) == scan' = [scan EXCEPT !.pc = pc]

(* probe: the scan is ready only if every configured root is readable; the *)
(* calls of the probe leave nothing but the two counts.                    *)
Probe ==
  /\ scan.pc = "probe"
  /\ IF \A r \in Range(Configured) : Readable(r)
     THEN scan' = [scan EXCEPT !.pc = IF scan.asked = <<>> THEN "seed" ELSE "authorize", !.todo = RootsOf]
     ELSE Goes("not_ready")
  /\ UNCHANGED <<tree, swaps>>

\* What the configured roots resolve to; those that are gone or links by now are left out.
Authorize ==
  /\ scan.pc = "authorize"
  /\ scan' = [scan EXCEPT !.pc = "check",
                          !.allowed = {Real(r) : r \in {c \in Range(Configured) : KindAt(c) \notin {"link", "gone"}}}]
  /\ UNCHANGED <<tree, swaps>>

(* A root given with the call may narrow the configured ones, not widen    *)
(* them; one that does ends the capture with nothing.                      *)
CheckRoot ==
  /\ scan.pc = "check"
  /\ IF scan.todo = <<>> THEN scan' = [scan EXCEPT !.pc = "seed", !.todo = RootsOf]
     ELSE LET r == Head(scan.todo) IN
          IF KindAt(r) = "link" THEN Goes("symlink_denied")
          ELSE IF KindAt(r) = "gone" THEN Goes("access_denied")
          ELSE IF \E a \in scan.allowed : Within(a, Real(r)) THEN scan' = [scan EXCEPT !.todo = Tail(@)]
          ELSE Goes("out_of_scope")
  /\ UNCHANGED <<tree, swaps>>

\* Each root is looked at and resolved once more, and queued.
Seed ==
  /\ scan.pc = "seed"
  /\ IF scan.todo = <<>> THEN Goes("take")
     ELSE LET r == Head(scan.todo) IN
          scan' = IF KindAt(r) \in {"link", "gone"}
                  THEN [scan EXCEPT !.todo = Tail(@), !.skipped = @ + 1]
                  ELSE [scan EXCEPT !.todo = Tail(@),
                          !.queue = Append(@, [path |-> Real(r), root |-> Real(r), depth |-> 0])]
  /\ UNCHANGED <<tree, swaps>>

Skips == scan' = [scan EXCEPT !.pc = "take", !.skipped = @ + 1]

\* The head of the loop, and lstat of the next path.
Take ==
  /\ scan.pc = "take"
  /\ IF scan.queue = <<>> THEN Goes("complete")
     ELSE IF Len(scan.records) >= ScanItems THEN Goes("partial")
     ELSE LET item == Head(scan.queue) IN
          scan' = IF KindAt(item.path) \in {"link", "gone"}
                  THEN [scan EXCEPT !.queue = Tail(@), !.skipped = @ + 1]
                  ELSE [scan EXCEPT !.queue = Tail(@), !.item = item, !.pc = "resolve"]
  /\ UNCHANGED <<tree, swaps>>

\* The signal is seen at the head of the loop only.
Abort ==
  /\ scan.pc = "take" /\ scan.queue # <<>> /\ Len(scan.records) < ScanItems
  /\ Goes("aborted")
  /\ UNCHANGED <<tree, swaps>>

\* realpath: outside the item's root or seen before, it is skipped.
ResolvePath ==
  /\ scan.pc = "resolve"
  /\ LET c == Real(scan.item.path) IN
     IF ~There(c) \/ ~Within(scan.item.root, c) \/ c \in scan.visited THEN Skips
     ELSE scan' = [scan EXCEPT !.pc = "record", !.item.path = c, !.visited = @ \cup {c}]
  /\ UNCHANGED <<tree, swaps>>

\* lstat of what it resolved to: a record is made, and a directory opened.
Record ==
  /\ scan.pc = "record"
  /\ LET i == scan.item IN
     IF KindAt(i.path) \in {"link", "gone"} THEN Skips
     ELSE scan' = [scan EXCEPT !.records = Append(@, i),
                               !.pc = IF KindAt(i.path) = "dir" /\ i.depth < ScanDepth THEN "list" ELSE "take"]
  /\ UNCHANGED <<tree, swaps>>

\* What is found in a directory goes to the end of the queue, links excepted.
Plain(i) == {n \in Names(Real(i.path)) :
               tree[Append(Real(i.path), n)].kind # "link" /\ Within(i.root, Append(i.path, n))}
Children(i, names) ==
  [j \in DOMAIN names |-> [path |-> Append(i.path, names[j]), root |-> i.root, depth |-> i.depth + 1]]

QueuedAtFront(names) ==
  LET i == scan.item IN
  [scan EXCEPT !.pc = "take", !.skipped = @ + Cardinality(Names(Real(i.path)) \ Plain(i)),
               !.queue = Children(i, names) \o @]
Queued(names) ==
  LET i == scan.item IN
  [scan EXCEPT !.pc = "take", !.skipped = @ + Cardinality(Names(Real(i.path)) \ Plain(i)),
               !.queue = @ \o Children(i, names)]

\* Sorted by name.
ByName(names) ==
  /\ Range(names) = Plain(scan.item)
  /\ \A i, j \in DOMAIN names : i < j => names[i] < names[j]

ReadDirectory ==
  /\ scan.pc = "list"
  /\ IF CanRead(Real(scan.item.path))
     THEN \E names \in [1..Cardinality(Plain(scan.item)) -> Plain(scan.item)] : ByName(names) /\ scan' = Queued(names)
     ELSE Skips
  /\ UNCHANGED <<tree, swaps>>

\* Another program replaces, removes, links, locks or unlocks what is at a path.
SwapEntry ==
  /\ scan.pc \notin ScanEnd /\ swaps < MaxSwaps
  /\ \E s \in Swap : tree[s[1]] # s[2] /\ tree' = [tree EXCEPT ![s[1]] = s[2]]
  /\ swaps' = swaps + 1
  /\ UNCHANGED scan

ScanStep == Probe \/ Authorize \/ CheckRoot \/ Seed \/ Take \/ ResolvePath \/ Record \/ ReadDirectory

FileScanNext == ScanStep \/ Abort \/ SwapEntry

FileScanSpec == FileScanInit /\ [][FileScanNext]_scanVars /\ WF_scanVars(ScanStep)

-----------------------------------------------------------------------------
(* Properties *)

Recorded == {scan.records[i].path : i \in DOMAIN scan.records}

\* Whatever is moved or linked meanwhile, a record is about something beneath the root it
\* was found from, at a depth the caller allowed, and it is the only one about it.  The
\* depth is counted along the way that was walked: that this is the depth of the path is
\* true as long as nobody puts a link in the way.
RecordsAreInScope ==
  /\ \A i \in DOMAIN scan.records : LET r == scan.records[i] IN
       Within(r.root, r.path) /\ r.depth <= ScanDepth /\ (swaps = 0 => Len(r.path) = Len(r.root) + r.depth)
  /\ \A i, j \in DOMAIN scan.records : i # j => scan.records[i].path # scan.records[j].path
  /\ Len(scan.records) <= ScanItems

\* What a scan of the roots is about: everything that can be reached from one of them
\* through directories the user may read, without a link, and not too deep.  What begins
\* with two dots in a root is left out, also of a root that lies around this one.
RootPaths == {Real(a) : a \in Range(RootsOf)}
Scannable ==
  {p \in Place : \E r \in RootPaths :
     /\ There(p) /\ IsPrefix(r, p) /\ Len(p) - Len(r) <= ScanDepth
     /\ \A i \in Len(r)..(Len(p) - 1) : CanRead(Prefix(p, i))
     /\ tree[p].kind # "link"
     /\ \A q \in RootPaths : IsPrefix(r, q) /\ IsPrefix(q, p) => Within(q, p)}

\* A complete scan of a file system nobody touched has found it all, although the roots
\* may lie within each other and each counts its depth by itself.
CompleteIsWhole == scan.pc = "complete" /\ swaps = 0 => Recorded = Scannable

\* And it looked into the configured roots only.
ScopeIsKept == swaps = 0 => \A p \in Recorded : \E r \in Range(Configured) : IsPrefix(Real(r), p)

(* The scan (capture): see the four parts above.                           *)
FileScanInvariant == FileScanTypeOK /\ RecordsAreInScope /\ CompleteIsWhole /\ ScopeIsKept

(* Every scan ends, whatever happens to the directories it walks.          *)
ScanEnds == <>(scan.pc \in ScanEnd)
=============================================================================
