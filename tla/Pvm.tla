---------------------------------- MODULE Pvm ----------------------------------
(***************************************************************************)
(* p4's pvm: one command looks at what the kernel says in /proc of the     *)
(* memory of a process and of the frames.  The process runs on meanwhile:  *)
(* between any two reads it may fault pages in, lose them, change its      *)
(* areas or exit, and other processes share its frames or let them go.     *)
(*                                                                         *)
(* Addresses are page numbers, because the kernel's areas begin and end at *)
(* pages, and sizes are numbers of pages (the program prints 4 KB a page). *)
(* /proc/PID/maps is read at once: the layouts fit into one buffer of its  *)
(* reader.  Every read of an entry of pagemap or kpagecount is a step.     *)
(***************************************************************************)
EXTENDS Integers, FiniteSets, Sequences, PageTables

CONSTANTS Layouts,   \* the area lists the process may have
          Readable,  \* how many pages have an entry in pagemap
          Frames,    \* the frame numbers
          FrameLimit,\* how many frames have an entry in kpagecount
          MaxCount,  \* bound on how often a frame is mapped
          Commands   \* the command lines: an option and its arguments

\* The kernel lists areas in ascending order, none of them empty.
ASSUME PvmAssumption ==
  /\ Layouts \subseteq Seq([start : Nat, end : Nat])
  /\ \A list \in Layouts :
       /\ list # <<>>
       /\ \A k \in DOMAIN list :
            /\ list[k].start < list[k].end
            /\ \A j \in DOMAIN list : j < k => list[j].end <= list[k].start
  /\ Readable \in Nat /\ FrameLimit \in Nat /\ MaxCount \in Nat
  /\ Frames \subseteq Nat /\ 0 .. FrameLimit-1 \subseteq Frames
  /\ \A c \in Commands : c.args \in Seq(Nat)

VARIABLES
  areas,       \* the kernel's: the areas of the process, <<>> once it is gone
  pagemap,     \* the kernel's: the frame of each page, or None
  kpagecount,  \* the kernel's: how often each frame is mapped
  still,       \* has all that stayed as it was since the command began?
  cmd,         \* the command line
  pc,          \* where the program is
  maps,        \* the areas it has read
  area, page,  \* its place in them
  frame,       \* the frame it has just read
  tally,       \* its counters
  tables,      \* the marked entries of level2, level3 and level4
  printed      \* the lines it has printed

kernel == <<areas, pagemap, kpagecount>>
locals == <<maps, area, page, frame, tally, tables, printed>>
pvars  == <<kernel, still, cmd, pc, locals>>

None == -1

\* The last area of a list may lie beyond pagemap, like [vsyscall].
Pages(list) == UNION {list[k].start .. list[k].end - 1 : k \in DOMAIN list}
Page == (UNION {Pages(list) : list \in Layouts}) \cap (0 .. Readable-1)

\* How often the process itself maps f.
Own(map, f) == Cardinality({v \in Page : map[v] = f})

PInit ==
  /\ areas \in Layouts \cup {<<>>}
  /\ pagemap \in [Page -> Frames \cup {None}]
  /\ kpagecount \in [Frames -> 0 .. MaxCount]
  /\ \A v \in Page : v \notin Pages(areas) => pagemap[v] = None
  /\ \A f \in Frames : Own(pagemap, f) <= kpagecount[f]
  /\ still = TRUE
  /\ cmd \in Commands
  /\ pc = "main"
  /\ maps = <<>> /\ area = 1 /\ page = 0 /\ frame = None
  /\ tally = [virtual |-> 0, all |-> 0, alone |-> 0, free |-> 0]
  /\ tables = [l \in 2 .. 4 |-> {}]
  /\ printed = <<>>

-------------------------------------------------------------------------------
(* The kernel *)

Changes ==
  /\ pc \notin {"main", "exit", "failed", "crashed"}
  /\ still' = FALSE
  /\ UNCHANGED <<cmd, pc, locals>>

FaultIn ==
  \E v \in Page \cap Pages(areas), f \in Frames :
    /\ pagemap[v] = None /\ kpagecount[f] < MaxCount
    /\ pagemap' = [pagemap EXCEPT ![v] = f]
    /\ kpagecount' = [kpagecount EXCEPT ![f] = @ + 1]
    /\ UNCHANGED areas

\* Pages that leave, because they are swapped out or their area goes.
Drop(gone) ==
  /\ pagemap' = [v \in Page |-> IF v \in gone THEN None ELSE pagemap[v]]
  /\ kpagecount' = [f \in Frames |-> kpagecount[f] - Cardinality({v \in gone : pagemap[v] = f})]

SwapOut == \E v \in Page : pagemap[v] # None /\ Drop({v}) /\ UNCHANGED areas

NewLayout ==
  /\ areas # <<>>
  /\ areas' \in (Layouts \cup {<<>>}) \ {areas}
  /\ Drop(Page \ Pages(areas'))

OthersShare ==
  /\ \E f \in Frames, n \in {-1, 1} :
       /\ kpagecount[f] + n \in Own(pagemap, f) .. MaxCount
       /\ kpagecount' = [kpagecount EXCEPT ![f] = @ + n]
  /\ UNCHANGED <<areas, pagemap>>

Kernel == (FaultIn \/ SwapOut \/ NewLayout \/ OthersShare) /\ Changes

-------------------------------------------------------------------------------
(* main() *)

Arity ==
  [o \in {"-freefc", "-frameinfo", "-memused", "-mapva", "-pte", "-maprange",
          "-mapall", "-mapallin", "-alltablesize"} |->
     CASE o \in {"-freefc", "-mapva", "-pte"} -> 2
       [] o = "-maprange" -> 3
       [] OTHER -> 1]

Option == cmd.option

Valid(c) == c.option \in DOMAIN Arity /\ Len(c.args) = Arity[c.option]

\* The arguments after the PID, if the option has one.
Arg(n) == cmd.args[n]

Listing == Option \in {"-mapall", "-mapallin"}

Main ==
  /\ pc = "main"
  /\ pc' = IF ~Valid(cmd) THEN "exit"
           ELSE CASE Option = "-freefc" -> "count"
                  [] Option = "-memused" -> "first"
                  [] Option = "-frameinfo" -> "flags"
                  [] Option \in {"-mapva", "-pte"} -> "entry"
                  [] Option = "-maprange" -> "range"
                  [] OTHER -> "open"
  /\ page' = CASE pc' = "count" -> Arg(1) [] pc' = "range" -> Arg(2) [] OTHER -> 0
  /\ UNCHANGED <<kernel, still, cmd, maps, area, frame, tally, tables, printed>>

-------------------------------------------------------------------------------
(* free_fc() and frame_info() *)

\* Slip: the frame at the end of the range is counted too.
free_fc_EndToo ==
  /\ pc = "count"
  /\ IF page <= Arg(2) /\ page < FrameLimit
       THEN /\ tally' = [tally EXCEPT !.free = @ + IF kpagecount[page] = 0 THEN 1 ELSE 0]
            /\ page' = page + 1
            /\ UNCHANGED pc
       ELSE /\ pc' = "exit"
            /\ UNCHANGED <<tally, page>>
  /\ UNCHANGED <<kernel, still, cmd, maps, area, frame, tables, printed>>

free_fc ==
  /\ pc = "count"
  /\ IF page < Arg(2) /\ page < FrameLimit
       THEN /\ tally' = [tally EXCEPT !.free = @ + IF kpagecount[page] = 0 THEN 1 ELSE 0]
            /\ page' = page + 1
            /\ UNCHANGED pc
       ELSE /\ pc' = "exit"
            /\ UNCHANGED <<tally, page>>
  /\ UNCHANGED <<kernel, still, cmd, maps, area, frame, tables, printed>>

\* One read of the flags, which the program prints bit by bit.
frame_info ==
  /\ pc = "flags"
  /\ pc' = IF Arg(1) < FrameLimit THEN "exit" ELSE "failed"
  /\ UNCHANGED <<kernel, still, cmd, locals>>

-------------------------------------------------------------------------------
(* The walks over the areas: mem_used(), map() and all_table_size() *)

\* /proc/PID/maps is opened.  mem_used(), which opens it twice, takes the NULL it
\* gets for a process that is gone for an open file; the others do not.
Open ==
  /\ pc \in {"first", "open"}
  /\ pc' = IF areas # <<>> THEN IF pc = "first" THEN "virtual" ELSE "read"
           ELSE IF Option = "-memused" THEN "crashed" ELSE "failed"
  /\ UNCHANGED <<kernel, still, cmd, locals>>

\* mem_used() adds up the areas first, and then reads maps again.
SumAreas ==
  /\ pc = "virtual"
  /\ pc' = "open"
  /\ tally' = [tally EXCEPT !.virtual = Cardinality(Pages(areas))]
  /\ UNCHANGED <<kernel, still, cmd, maps, area, page, frame, tables, printed>>

\* The areas are read.  A process that has gone since has none; map() may fail then
\* to open pagemap.
ReadMaps ==
  /\ pc = "read"
  /\ maps' = areas
  /\ IF areas = <<>>
       THEN /\ pc' \in {"exit"} \cup IF Listing THEN {"failed"} ELSE {}
            /\ UNCHANGED page
       ELSE /\ pc' = CASE Option = "-memused" -> "walk" [] Listing -> "list" [] OTHER -> "mark"
            /\ page' = areas[1].start
  /\ UNCHANGED <<kernel, still, cmd, area, frame, tally, tables, printed>>

NextArea ==
  /\ area' = area + 1
  /\ IF area = Len(maps) THEN pc' = "exit" /\ UNCHANGED page
                         ELSE pc' = pc /\ page' = maps[area+1].start

\* The next page, up to last in each area.
Advance(last) ==
  IF page < last THEN page' = page + 1 /\ UNCHANGED <<pc, area>> ELSE NextArea

End == maps[area].end

\* The page's entry; a page of no area has an empty one.
InPagemap == page < Readable /\ areas # <<>>
PageFrame == IF InPagemap /\ page \in Page THEN pagemap[page] ELSE None

\* The page behind each area is looked at too, but adds nothing.
WalkPage ==
  /\ pc = "walk" /\ frame = None
  /\ IF PageFrame = None
       THEN Advance(End) /\ UNCHANGED frame
       ELSE frame' = PageFrame /\ UNCHANGED <<pc, area, page>>
  /\ UNCHANGED <<kernel, still, cmd, maps, tally, tables, printed>>

\* Slip: the page behind an area counts like the others.
CountPage_EndWhole ==
  /\ pc = "walk" /\ frame # None
  /\ frame' = None
  /\ IF frame >= FrameLimit
       THEN /\ pc' = "failed"
            /\ UNCHANGED <<tally, area, page>>
       ELSE LET n == kpagecount[frame]
            IN  /\ tally' = [tally EXCEPT !.alone = @ + IF n = 1 THEN 1 ELSE 0,
                                          !.all = @ + IF n >= 1 THEN 1 ELSE 0]
                /\ Advance(End)
  /\ UNCHANGED <<kernel, still, cmd, maps, tables, printed>>

\* The frame's count is read in turn; it may be another page's by now.
CountPage ==
  /\ pc = "walk" /\ frame # None
  /\ frame' = None
  /\ IF frame >= FrameLimit
       THEN /\ pc' = "failed"
            /\ UNCHANGED <<tally, area, page>>
       ELSE LET size == IF page = End THEN 0 ELSE 1
                n    == kpagecount[frame]
            IN  /\ tally' = [tally EXCEPT !.alone = @ + IF n = 1 THEN size ELSE 0,
                                          !.all = @ + IF n >= 1 THEN size ELSE 0]
                /\ Advance(End)
  /\ UNCHANGED <<kernel, still, cmd, maps, tables, printed>>

PrintLine(line) == printed' = Append(printed, line)

\* Slip: the page behind an area is listed with it.
ListPage_EndToo ==
  /\ pc = "list"
  /\ IF ~InPagemap
       THEN NextArea /\ UNCHANGED printed
       ELSE /\ Advance(End)
            /\ IF PageFrame # None \/ Option = "-mapall"
                 THEN PrintLine(<<page, PageFrame>>) ELSE UNCHANGED printed
  /\ UNCHANGED <<kernel, still, cmd, maps, frame, tally, tables>>

\* map(): a short read ends the area; "-mapallin" leaves out what is not in memory.
ListPage ==
  /\ pc = "list"
  /\ IF ~InPagemap
       THEN NextArea /\ UNCHANGED printed
       ELSE /\ Advance(End - 1)
            /\ IF PageFrame # None \/ Option = "-mapall"
                 THEN PrintLine(<<page, PageFrame>>) ELSE UNCHANGED printed
  /\ UNCHANGED <<kernel, still, cmd, maps, frame, tally, tables>>

\* all_table_size() marks the page's table of each level.
MarkPage ==
  /\ pc = "mark"
  /\ Advance(End - 1)
  /\ tables' = [l \in 2 .. 4 |-> tables[l] \cup {TableIndex(l, page)}]
  /\ UNCHANGED <<kernel, still, cmd, maps, frame, tally, printed>>

-------------------------------------------------------------------------------
(* map_va(), pte() and map_range() *)

\* Entries are 8 bytes.  A read at another offset, or behind the last entry, or
\* of a process that is gone, leaves the entry as it was: anything at first.
AtByte(offset, before) ==
  IF offset % 8 = 0 /\ offset \div 8 < Readable /\ areas # <<>>
    THEN {IF offset \div 8 \in Page THEN pagemap[offset \div 8] ELSE None}
    ELSE before

\* The page number is taken for the offset.
MapVa ==
  /\ pc = "entry"
  /\ \E f \in AtByte(Arg(2), Frames \cup {None}) : PrintLine(<<Arg(2), f>>)
  /\ pc' = "exit"
  /\ UNCHANGED <<kernel, still, cmd, maps, area, page, frame, tally, tables>>

\* Entries are read one after the other, for every 16th page.
map_range ==
  /\ pc = "range"
  /\ IF page <= Arg(3)
       THEN /\ \E f \in AtByte(Arg(2) + 8 * Len(printed),
                               IF printed = <<>> THEN Frames \cup {None}
                               ELSE {printed[Len(printed)][2]}) : PrintLine(<<page, f>>)
            /\ page' = page + 16
            /\ UNCHANGED pc
       ELSE pc' = "exit" /\ UNCHANGED <<page, printed>>
  /\ UNCHANGED <<kernel, still, cmd, maps, area, frame, tally, tables>>

-------------------------------------------------------------------------------
Program ==
  \/ Main \/ free_fc \/ frame_info \/ Open \/ SumAreas \/ ReadMaps \/ WalkPage
  \/ CountPage \/ ListPage \/ MarkPage \/ MapVa \/ map_range

Over == pc \in {"exit", "failed", "crashed"}

PNext == Kernel \/ Program \/ (Over /\ UNCHANGED pvars)

PSpec == PInit /\ [][PNext]_pvars

-------------------------------------------------------------------------------
(* Properties *)

PTypeOK ==
  /\ areas \in Layouts \cup {<<>>}
  /\ pagemap \in [Page -> Frames \cup {None}]
  /\ kpagecount \in [Frames -> 0 .. MaxCount]
  /\ pc \in {"main", "count", "flags", "entry", "range", "first", "virtual", "open", "read",
              "walk", "list", "mark", "exit", "failed", "crashed"}
  /\ frame \in Frames \cup {None}
  /\ tally \in [virtual : Nat, all : Nat, alone : Nat, free : Nat]
  /\ \A l \in 2 .. 4 : tables[l] \subseteq 0 .. Slots(l)-1
  /\ \A k \in DOMAIN printed : printed[k][2] \in Frames \cup {None}

Resident == {v \in Page : pagemap[v] # None}

\* While the process and the frames stay as they are, the counts, the sizes and the
\* lists of these four commands are those of the kernel, although the loops visit
\* one page too many and stop at short reads.  free_fc() asks for a count of 0 only,
\* never for the nopage flag of mem_utils.h:13.  The other commands are not among
\* the four: -mapva, -pte and -maprange read the wrong entry even then
\* (mem_utils.c:248, 270, 303), and TablesExact is about -alltablesize.
ExactWhenStill ==
  still /\ pc = "exit" /\ Valid(cmd)
    /\ Option \in {"-freefc", "-memused", "-mapall", "-mapallin"} =>
    CASE Option = "-freefc" ->
           tally.free = Cardinality({f \in Frames : /\ f \in Arg(1) .. Arg(2)-1
                                                    /\ f < FrameLimit /\ kpagecount[f] = 0})
      [] Option = "-memused" ->
           /\ tally.virtual = Cardinality(Pages(areas))
           /\ tally.all = Cardinality(Resident)
           /\ tally.alone = Cardinality({v \in Resident : kpagecount[pagemap[v]] = 1})
      [] Option = "-mapall" ->
           {printed[k] : k \in DOMAIN printed}
             = {<<v, pagemap[v]>> : v \in Page \cap Pages(areas)}
      [] Option = "-mapallin" ->
           {printed[k] : k \in DOMAIN printed} = {<<v, pagemap[v]>> : v \in Resident}

\* However the process changes meanwhile, mem_used() counts no page of the areas it
\* has read twice, not even one that two areas share as end and start, and no
\* page it has not reached.
WithinAreas ==
  Option = "-memused" =>
    tally.all <= Cardinality({v \in Pages(maps) : v <= page \/ area > Len(maps)})

\* However the process changes meanwhile, a page is listed at most once, in
\* ascending order, and only if it is in an area that was read.
ListedInOrder ==
  Listing =>
    \A k \in DOMAIN printed :
      /\ printed[k][1] \in Pages(maps)
      /\ k > 1 => printed[k-1][1] < printed[k][1]

\* all_table_size() marks at each level as many entries as there are tables that
\* map a page of the areas it has read.
TablesExact ==
  Option = "-alltablesize" /\ pc = "exit" =>
    \A l \in 2 .. 4 :
      Cardinality(tables[l]) = Cardinality({TableOf(l, v) : v \in Pages(maps)})
===============================================================================
