------------------------------ MODULE AdminPass -------------------------------
(***************************************************************************)
(* The boundaries of a cache build.  Two scans of the file store the       *)
(* administrative relations and then their member ways, each saving its    *)
(* place; the regions are put together one by one, saved, and published a  *)
(* level at a time.  A focused build keeps none of its regions: it merges  *)
(* them into the published levels at once.                                 *)
(***************************************************************************)
EXTENDS WayPass

VARIABLES
    adm,        \* the scans: admin-v2.sqlite of planet builds, the candidate database
                \* of focused ones
    assembly,   \* admin-assembly-v1.sqlite: the file it belongs to, regions by level
    published   \* per level: the regions in admin_level_*.1kc

adminVars == <<adm, assembly, published>>

Scans == <<"relations", "members">>
NoScan == [source |-> 0, saved |-> [relations |-> {}, members |-> {}],
           offset |-> [relations |-> 0, members |-> 0],
           done |-> [relations |-> FALSE, members |-> FALSE]]
Store == IF job.mode = "bbox" THEN "bbox" ELSE "planet"
Adm == adm[Store]
Scan == run.what

AdminInit ==
    /\ adm = [s \in {"bbox", "planet"} |-> NoScan]
    /\ assembly = [source |-> 0, regions |-> {}]
    /\ published = [l \in Levels |-> {}]

AtLevel(regions, l) == {r \in regions : LevelOf[r.relation] = l}

--------------------------------------------------------------------------------
(* The scans. *)

NextScan(a) ==
    IF ~a.done.relations THEN "relations" ELSE IF ~a.done.members THEN "members" ELSE "none"
AfterScan(a) == [run EXCEPT !.what = NextScan(a), !.found = {},
                            !.pc = IF NextScan(a) # "none" THEN "openScan"
                                   ELSE IF job.mode = "bbox" THEN "writeLevels" ELSE "openAssembly"]

\* What was scanned in another file is forgotten.
PrepareSource ==
    /\ at("prepareAdmin") /\ Works
    /\ IF ~job.admin
       THEN goto("finish") /\ UNCHANGED adm
       ELSE /\ adm' = [adm EXCEPT ![Store] = IF @.source = planet THEN @
                                             ELSE [NoScan EXCEPT !.source = planet]]
            /\ run' = AfterScan(adm'[Store])
    /\ UNCHANGED <<job, nodeVars, wayVars, assembly, published>>

Wanted == IF Scan = "relations" THEN Relations
          ELSE UNION {MembersOf[r] : r \in Adm.saved.relations}

\* Without relations there are no members to look for.
OpenScan ==
    /\ at("openScan") /\ Works
    /\ run' = [run EXCEPT !.from = planet, !.pos = Adm.offset[Scan],
                          !.pc = IF Wanted = {} THEN "markScan" ELSE "readScan"]
    /\ UNCHANGED <<job, nodeVars, wayVars, adminVars>>

\* One blob; now and then, and at the end, what was found is stored.
ReadScan ==
    /\ at("readScan") /\ run.pos < End
    /\ \/ /\ Works /\ UNCHANGED job
          /\ LET next == run.pos + 1
                 here == IF Scan = "relations" THEN RelationsIn(run.pos, next)
                         ELSE WaysIn(run.pos, next)
             IN  \E pc \in {"readScan", "saveScan"} :
                    run' = [run EXCEPT !.pos = next, !.found = @ \cup (here \cap Wanted),
                                       !.pc = pc]
       \/ Fails
    /\ UNCHANGED <<nodeVars, wayVars, adminVars>>

EndOfScan ==
    /\ at("readScan") /\ run.pos = End /\ Works
    /\ run' = [run EXCEPT !.pc = "saveScan", !.last = TRUE]
    /\ UNCHANGED <<job, nodeVars, wayVars, adminVars>>

SaveScan ==
    /\ at("saveScan")
    /\ \/ /\ Works /\ adm' = [adm EXCEPT ![Store].saved[Scan] = @ \cup run.found]
          /\ run' = [run EXCEPT !.found = {},
                        !.pc = IF run.last THEN "markScan" ELSE "saveScanOffset"]
          /\ UNCHANGED job
       \/ Fails /\ UNCHANGED adm
    /\ UNCHANGED <<nodeVars, wayVars, assembly, published>>

SaveScanOffset ==
    /\ at("saveScanOffset")
    /\ \/ /\ Works /\ adm' = [adm EXCEPT ![Store].offset[Scan] = run.pos]
          /\ goto("readScan") /\ UNCHANGED job
       \/ Fails /\ UNCHANGED adm
    /\ UNCHANGED <<nodeVars, wayVars, assembly, published>>

\* The mark and the removal of the place are two writes: a crash may part them.
MarkScan ==
    /\ at("markScan") /\ Works
    /\ \E kept \in {0, Adm.offset[Scan]} :
          adm' = [adm EXCEPT ![Store].done[Scan] = TRUE, ![Store].offset[Scan] = kept]
    /\ run' = [AfterScan(adm'[Store]) EXCEPT !.last = FALSE]
    /\ UNCHANGED <<job, nodeVars, wayVars, assembly, published>>

--------------------------------------------------------------------------------
(* The regions. *)

\* Complete when every member is there and every node of theirs was found.
Region(r) ==
    [relation |-> r,
     whole |-> /\ MembersOf[r] \subseteq Adm.saved.members
               /\ \A w \in MembersOf[r] : RefsOf[w] \subseteq Known,
     from |-> Adm.source]

\* Regions of another source are deleted; then every level is published again,
\* from the lowest on.
OpenAssembly ==
    /\ at("openAssembly") /\ Works
    /\ IF assembly.source = Adm.source THEN UNCHANGED assembly
       ELSE assembly' = [source |-> Adm.source, regions |-> {}]
    /\ IF SameSource(index.source)
       THEN run' = [run EXCEPT !.pc = "republish", !.level = Min(Levels)] /\ UNCHANGED job
       ELSE Stop
    /\ UNCHANGED <<nodeVars, wayVars, adm, published>>

NextLevel(l) == IF l = Max(Levels) THEN 0 ELSE Min({m \in Levels : m > l})

\* A level is written aside and renamed over the old one.
Publish(next) ==
    \/ /\ Works /\ UNCHANGED job
       /\ published' = [published EXCEPT ![run.level] = AtLevel(assembly.regions, run.level)]
       /\ run' = next
    \/ Fails /\ UNCHANGED published

Republish ==
    /\ at("republish")
    /\ Publish([run EXCEPT !.level = IF NextLevel(run.level) = 0 THEN Min(Levels) ELSE NextLevel(run.level),
                           !.pc = IF NextLevel(run.level) = 0 THEN "assemble" ELSE "republish"])
    /\ UNCHANGED <<nodeVars, wayVars, adm, assembly>>

Pending == {r \in Adm.saved.relations : LevelOf[r] = run.level
               /\ \A x \in assembly.regions : x.relation # r}

\* Published at once when it is the first of its level, else every 30 s.
SaveRegion(r) ==
    /\ at("assemble") /\ r \in Pending
    /\ \/ /\ Works /\ SameSource(index.source) /\ UNCHANGED job
          /\ assembly' = [assembly EXCEPT !.regions = @ \cup {Region(r)}]
          /\ run' = run \/ goto("publish")
       \/ Works /\ ~SameSource(index.source) /\ Stop /\ UNCHANGED assembly
       \/ Fails /\ UNCHANGED assembly
    /\ UNCHANGED <<nodeVars, wayVars, adm, published>>

PublishMore ==
    /\ at("publish")
    /\ Publish([run EXCEPT !.pc = "assemble"])
    /\ UNCHANGED <<nodeVars, wayVars, adm, assembly>>

LevelDone ==
    /\ at("assemble") /\ Pending = {}
    /\ Publish([run EXCEPT !.level = NextLevel(run.level),
                           !.pc = IF NextLevel(run.level) = 0 THEN "finish" ELSE "assemble"])
    /\ UNCHANGED <<nodeVars, wayVars, adm, assembly>>

\* A focused build has no use for a region without a line to draw.
Drawn(l) == AtLevel({Region(r) : r \in {x \in Adm.saved.relations :
                \E w \in MembersOf[x] \cap Adm.saved.members : Cardinality(RefsOf[w] \cap Known) >= 2}}, l)

\* mutant: a focused build replaces the level
LevelReplaced(l) == published' = [published EXCEPT ![l] = Drawn(l)]

\* A whole region replaces what is there of the same relation; pieces are added
\* to pieces, never to a whole one.
MergeLevel(l) ==
    LET new == Drawn(l)
        old == published[l]
        whole(regions) == {x.relation : x \in {y \in regions : y.whole}}
    IN  published' = [published EXCEPT ![l] =
            {x \in new : x.whole \/ x.relation \notin whole(old)}
                \cup {x \in old : x.relation \notin whole(new)}]

WriteLevels ==
    /\ at("writeLevels")
    /\ LET l == IF run.level = 0 THEN Min(Levels) ELSE run.level
       IN  \/ /\ Works /\ MergeLevel(l)
              /\ run' = [run EXCEPT !.level = NextLevel(l),
                                    !.pc = IF NextLevel(l) = 0 THEN "finish" ELSE "writeLevels"]
              /\ UNCHANGED job
           \/ Fails /\ UNCHANGED published
    /\ UNCHANGED <<nodeVars, wayVars, adm, assembly>>

\* A compact build is marked as done if its file is still the same.
Finish ==
    /\ at("finish") /\ Works /\ Stop
    /\ index' = IF job.mode = "compact" /\ planet = index.source THEN [index EXCEPT !.done = TRUE]
                ELSE index
    /\ UNCHANGED <<nodeFile, cp, cand, wayVars, adminVars>>

AdminStep ==
    \/ PrepareSource \/ OpenScan \/ ReadScan \/ EndOfScan \/ SaveScan \/ SaveScanOffset \/ MarkScan
    \/ OpenAssembly \/ Republish \/ PublishMore \/ LevelDone \/ WriteLevels \/ Finish
    \/ \E r \in Relations : SaveRegion(r)

--------------------------------------------------------------------------------

Regions == [relation : Relations, whole : BOOLEAN, from : {1, 2}]

AdminTypeOK ==
    /\ \A s \in {"bbox", "planet"} :
        /\ adm[s].source \in 0..planet
        /\ adm[s].offset.relations \in 0..End /\ adm[s].offset.members \in 0..End
        /\ adm[s].saved.relations \subseteq Relations /\ adm[s].saved.members \subseteq Ways
    /\ assembly.source \in 0..planet /\ assembly.regions \subseteq Regions
    /\ \A l \in Levels : published[l] \subseteq Regions

\* A scan marked as done has stored all there is to find in the file.
ScansAreWhole ==
    \A s \in {"bbox", "planet"} :
        /\ adm[s].done.relations => adm[s].saved.relations = RelationsIn(0, End)
        /\ adm[s].done.members => adm[s].saved.members =
              WaysIn(0, End) \cap UNION {MembersOf[r] : r \in adm[s].saved.relations}

\* "A focused extract cannot replace complete global topology": it never takes
\* away the whole region of a relation without putting a whole one in its place.
WholeRegionsStay ==
    [][at("writeLevels") => \A l \in Levels : \A x \in published[l] :
           x.whole => \E y \in published'[l] : y.relation = x.relation /\ y.whole]_<<adminVars, run>>

=============================================================================
