------------------------------- MODULE EpubSplit -------------------------------
(****************************************************************************)
(* --edit-epub (txt/edit_epub.py): one EPUB is cut into parts no larger than  *)
(* a target, each a whole EPUB of a run of spine documents. The cut is        *)
(* planned from estimated sizes, the parts are rendered, and every part that  *)
(* came out too large is halved and all of them rendered again, until none    *)
(* is; then they are moved into the destination one after the other. The      *)
(* process may die at any moment and be run again.                            *)
(*                                                                          *)
(* A spine document is its position in the spine. Parsing, image replacement  *)
(* and compression appear as the difference between a document's estimated    *)
(* and its rendered size. Zero-padded labels order as their numbers do.       *)
(****************************************************************************)
EXTENDS Naturals, Sequences, SequencesExt, FiniteSets

CONSTANTS MaxEntries,   \* the longest spine
          Estimates,    \* _estimated_size of a spine document
          Rendered,     \* its size in a rendered part
          BaseSizes,    \* what every part carries besides: styles, fonts, images
          Target,       \* TARGET_EPUB_BYTES
          MaxCrashes    \* how often the process dies

ASSUME SplitAssumption ==
  /\ MaxEntries \in Nat \ {0} /\ Target \in Nat \ {0} /\ MaxCrashes \in Nat
  /\ Estimates \subseteq Nat \ {0} /\ Rendered \subseteq Nat \ {0}
  /\ BaseSizes \subseteq Nat

VARIABLES
  book,         \* the package: [estimate, size, member, base]
  pc,           \* where the process is
  groups,       \* the plan: runs of spine documents
  parts,        \* what the last iteration rendered, in the working directory
  destination,  \* the installed parts: [epub, opf] under each label
  next,         \* the part _install moves next
  crashes

splitVars == <<book, pc, groups, parts, destination, next, crashes>>

SpineEntries == DOMAIN book.estimate
EntrySeq == [i \in SpineEntries |-> i]

\* Two manifest items may name one file, told apart by a fragment. A spine that repeats an
\* item, which EPUB forbids and _spine_entries takes, is left out.
Packages ==
  UNION {[estimate : [1 .. n -> Estimates], size : [1 .. n -> Rendered],
          member : {[i \in 1 .. n |-> i], [i \in 1 .. n |-> IF i = n THEN 1 ELSE i]},
          base : BaseSizes] : n \in 1 .. MaxEntries}

\* The sum of f over the documents of g.
Total(f, g) ==
  LET sum[k \in 0 .. Len(g)] == IF k = 0 THEN 0 ELSE sum[k - 1] + f[g[k]]
  IN  sum[Len(g)]

--------------------------------------------------------------------------------
(* SplitPlanner *)

\* Faults for the mutation runs: a part is halved once only, ...
RefinedOnce(g, part) == part.size > Target /\ Len(g) # 1 /\ g = EntrySeq

\* ... a part that cannot be halved counts as a change, ...
AnyOversized == \E k \in DOMAIN groups : parts[k].size > Target

\* ... the files of every other spine document are left out, ...
OthersLeftOut(g) == {book.member[i] : i \in SpineEntries \ ToSet(g)}

\* ... and the .opf files are written in a pass of their own.
OpfLater(label) == [epub |-> parts[label], opf |-> destination[label].opf]

Budget == IF Target > book.base THEN Target - book.base ELSE 1

\* The group under construction is closed when the next document does not fit.
WithLast(groupsSoFar, current) ==
  IF current = <<>> THEN groupsSoFar ELSE Append(groupsSoFar, current)

InitialGroups ==
  LET Place(acc, i) ==
        IF acc.current # <<>> /\ Total(book.estimate, acc.current) + book.estimate[i] > Budget
        THEN [done |-> Append(acc.done, acc.current), current |-> <<i>>]
        ELSE [done |-> acc.done, current |-> Append(acc.current, i)]
      placed[i \in 0 .. Len(EntrySeq)] ==
        IF i = 0 THEN [done |-> <<>>, current |-> <<>>] ELSE Place(placed[i - 1], i)
      end == placed[Len(EntrySeq)]
  IN  WithLast(end.done, end.current)

\* Twice the distance of the cut after k documents from the middle of the group.
Imbalance(g, k) ==
  LET all == Total(book.estimate, g)
      used == 2 * Total(book.estimate, SubSeq(g, 1, k))
  IN  IF used > all THEN used - all ELSE all - used

\* The loop of _halve: a later cut replaces the boundary only when strictly nearer.
Boundary(g) ==
  LET best[k \in 1 .. Len(g) - 1] ==
        IF k = 1 THEN 1
        ELSE IF Imbalance(g, k) < Imbalance(g, best[k - 1]) THEN k ELSE best[k - 1]
  IN  best[Len(g) - 1]

Halve(g) == <<SubSeq(g, 1, Boundary(g)), SubSeq(g, Boundary(g) + 1, Len(g))>>

TooLarge(g, part) == part.size > Target /\ Len(g) # 1

Changed == \E k \in DOMAIN groups : TooLarge(groups[k], parts[k])

Refined ==
  FlattenSeq([k \in DOMAIN groups |->
                IF TooLarge(groups[k], parts[k]) THEN Halve(groups[k]) ELSE <<groups[k]>>])

--------------------------------------------------------------------------------
(* SplitWriter *)

\* What _write_raw leaves out: files of spine documents, unless this part has them.
Excluded(g) == {book.member[i] : i \in SpineEntries} \ {book.member[i] : i \in ToSet(g)}

\* The items of the spine that _filter_package keeps.
Kept(selected) ==
  LET kept[i \in 0 .. Len(EntrySeq)] ==
        IF i = 0 THEN <<>>
        ELSE IF i \in selected THEN Append(kept[i - 1], i) ELSE kept[i - 1]
  IN  kept[Len(EntrySeq)]

\* A file is named by the first document that has it; it is there, and counts, once.
Part(g, label) ==
  LET files == {book.member[i] : i \in SpineEntries} \ Excluded(g)
  IN  [label |-> label, spine |-> Kept(ToSet(g)), files |-> files,
       size |-> book.base + Total(book.size, Kept(files))]

--------------------------------------------------------------------------------
(* EpubSplitter *)

NoFile == [label |-> 0, spine |-> <<>>, files |-> {}, size |-> 0]
Labels == 1 .. MaxEntries

SplitInit ==
  /\ book \in Packages
  /\ pc = "load" /\ groups = <<>> /\ parts = <<>> /\ next = 1 /\ crashes = 0
  /\ destination = [l \in Labels |-> [epub |-> NoFile, opf |-> NoFile]]

Plan ==
  /\ pc = "load"
  /\ pc' = "render" /\ groups' = InitialGroups
  /\ UNCHANGED <<book, parts, destination, next, crashes>>

Render ==
  /\ pc = "render"
  /\ pc' = "refine" /\ parts' = [k \in DOMAIN groups |-> Part(groups[k], k)]
  /\ UNCHANGED <<book, groups, destination, next, crashes>>

\* An iteration that changes nothing keeps the parts it rendered.
Refine ==
  /\ pc = "refine"
  /\ groups' = Refined
  /\ IF Changed
     THEN pc' = "render" /\ next' = next
     ELSE pc' = "install" /\ next' = 1
  /\ UNCHANGED <<book, parts, destination, crashes>>

\* A rename, and then the .opf beside it.
InstallEpub ==
  /\ pc = "install" /\ next \in DOMAIN parts
  /\ pc' = "opf" /\ destination' = [destination EXCEPT ![next].epub = parts[next]]
  /\ UNCHANGED <<book, groups, parts, next, crashes>>

Installed(label) == [epub |-> destination[label].epub, opf |-> parts[label]]

InstallOpf ==
  /\ pc = "opf"
  /\ pc' = "install" /\ next' = next + 1
  /\ destination' = [destination EXCEPT ![next] = Installed(next)]
  /\ UNCHANGED <<book, groups, parts, crashes>>

Finish ==
  /\ pc = "install" /\ next \notin DOMAIN parts
  /\ pc' = "done"
  /\ UNCHANGED <<book, groups, parts, destination, next, crashes>>

\* The working directory of a run that died is never looked at again.
Killed ==
  /\ pc # "done" /\ crashes < MaxCrashes
  /\ pc' = "load" /\ groups' = <<>> /\ parts' = <<>> /\ next' = 1 /\ crashes' = crashes + 1
  /\ UNCHANGED <<book, destination>>

Step == Plan \/ Render \/ Refine \/ InstallEpub \/ InstallOpf \/ Finish

SplitNext == Step \/ Killed

SplitSpec == SplitInit /\ [][SplitNext]_splitVars /\ WF_splitVars(Step)

--------------------------------------------------------------------------------
(* Properties *)

\* The plan never has more groups than the spine has documents, so that every part
\* has a label (SplitPlanner.initial_groups, refine).
SplitTypeOK ==
  /\ pc \in {"load", "render", "refine", "install", "opf", "done"}
  /\ \A k \in DOMAIN groups : groups[k] \in Seq(SpineEntries)
  /\ Len(groups) =< Len(EntrySeq) /\ Len(parts) =< Len(groups)
  /\ next \in 1 .. MaxEntries + 1 /\ crashes \in 0 .. MaxCrashes

\* However often the plan is refined, its groups in order are the spine, none of them
\* empty: no chapter is lost, repeated or moved. The spines rewritten into a finished
\* run's parts say the same (SplitPlanner, _filter_package).
NoChapterLost ==
  /\ pc # "load" =>
       FlattenSeq(groups) = EntrySeq /\ \A k \in DOMAIN groups : groups[k] # <<>>
  /\ pc = "done" =>
       FlattenSeq([k \in DOMAIN parts |-> destination[k].epub.spine]) = EntrySeq

\* A finished run leaves a part above the target only when it is one document
\* ("unavoidable oversized part(s)", EpubEditor._edit).
OnlySinglesOversized ==
  pc = "done" =>
    \A k \in DOMAIN parts :
      destination[k].epub.size > Target => Len(destination[k].epub.spine) = 1

\* _halve's one pass over running sums finds a cut as near to the middle as any, and
\* leaves something on both sides.
HalvesBalanced ==
  \A k \in DOMAIN groups :
    Len(groups[k]) > 1 =>
      /\ Boundary(groups[k]) \in 1 .. Len(groups[k]) - 1
      /\ \A other \in 1 .. Len(groups[k]) - 1 :
           Imbalance(groups[k], Boundary(groups[k])) =< Imbalance(groups[k], other)

\* A part holds the file of every document in its spine, also one that it shares with
\* another part (SplitWriter._write_raw).
PartsSelfContained ==
  \A k \in DOMAIN parts : {book.member[i] : i \in ToSet(parts[k].spine)} \subseteq parts[k].files

\* Each part is a book of its own, and together they are the whole book in its order
\* (SplitPlanner, SplitWriter).
PartsComplete == SplitTypeOK /\ NoChapterLost /\ PartsSelfContained

\* The groups are halved in the middle, and until no part that can be halved is above
\* the target (SplitPlanner._halve, refine).
PartsSmall == HalvesBalanced /\ OnlySinglesOversized

\* After a run that was not interrupted, or after the rerun that follows a crash in
\* the middle of the installation, every .opf belongs to the .epub beside it.
OpfMatchesEpub ==
  pc = "done" => \A k \in DOMAIN parts : destination[k].opf = destination[k].epub

\* Rendering and halving come to an end, whatever the sizes turn out to be
\* (_render_until_sized loops until nothing changes).
SplitEnds == <>(pc = "done")
================================================================================
