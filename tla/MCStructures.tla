---------------------------- MODULE MCStructures ----------------------------
(***************************************************************************)
(* The data structures behind the commands, and calculations on ranges and  *)
(* dates.  They do not interact: a behaviour is one of one of them, `lib`,  *)
(* and u1 to u4 are the variables of the one it is.                         *)
(***************************************************************************)
EXTENDS SortedSet, TLC

VARIABLES lib, u1, u2, u3, u4

(* Three members and three scores: ties, and entries before, between and after *)
(* the one a command moves.  Ranks go one past both ends.                      *)
MCScores == -1 .. 1
MCRanks == -4 .. 4
Symmetry == Permutations(Members)

(* The edges of the boxes down to step 2, middles, and the limits of the map *)
Scale == 2 ^ 27
Edge == {0, Scale \div 4, Scale \div 2, 5 * (Scale \div 8), 3 * (Scale \div 4), Scale - 1}
Positions(xs, ys) == {[lon |-> x, lat |-> y] : x \in xs, y \in ys}
MCLocations == Positions({0, Scale \div 4 - 1, Scale \div 2, Scale - 3}, {0, Scale \div 3, Scale \div 2 - 1, Scale - 1})
MCMembers == Positions(Edge, Edge)
G == INSTANCE Geo WITH Locations <- MCLocations, Members <- MCMembers, Steps <- {1, 2, 3}, Reaches <- {1, 8}, search <- u1

(* Neighbours that share a byte, the ends, and ranks that use all six bits *)
MCElements == {[bucket |-> 0, rank |-> 50], [bucket |-> 1, rank |-> 45], [bucket |-> 1, rank |-> 19], [bucket |-> 15, rank |-> 1]}
H == INSTANCE Hll WITH Arrays <- {"a", "b"}, Elements <- MCElements, MaxAdded <- 2,
                       registers <- u1, cached <- u2, added <- u3, counted <- u4

R == INSTANCE Range WITH N <- 2, MaxHeld <- 2, held <- u1, covered <- u2

(* Two months round a leap day, the turn of a century or of the era each, and *)
(* formats that name a day in every way parse knows                           *)
Char(c) == [cmd |-> FALSE, c |-> c, mod |-> "", w |-> -1]
Cmd(c) == [cmd |-> TRUE, c |-> c, mod |-> "", w |-> -1]
MCStart ==
    {<<-401, 12, 20, 1, -865637>>, <<-1, 12, 20, 1, -719540>>, <<1899, 12, 20, 3, -25579>>,
     <<1969, 2, 20, 4, -315>>, <<1999, 12, 20, 1, 10945>>}
MCFormats ==
    {<<Cmd("F"), Char(" "), Cmd("T")>>,
     <<Cmd("F"), Char("T"), Cmd("T"), Cmd("z")>>,
     <<Cmd("Y"), Cmd("m"), Cmd("d")>>,
     <<Cmd("a"), Char(" "), Cmd("b"), Char(" "), Cmd("e"), Char(" "), Cmd("C"), Cmd("y")>>,
     <<Cmd("Y"), Char("-"), Cmd("j"), Char(" "), Cmd("R")>>,
     <<Cmd("G"), Char("-"), Cmd("V"), Char("-"), Cmd("u")>>,
     <<Cmd("Y"), Char(" "), Cmd("U"), Char(" "), Cmd("w")>>,
     <<Cmd("Y"), Char(" "), Cmd("W"), Char(" "), Cmd("a"), Char(" "),
       Cmd("H"), Cmd("M"), Char(":"), Cmd("S")>>,
     <<Cmd("Z"), Cmd("F"), Char(" "), Cmd("I"), Char(" "), Cmd("H")>>,
     <<Cmd("D")>>,
     <<Cmd("g"), Cmd("V"), Cmd("w")>>,
     <<Cmd("F"), [Cmd("d") EXCEPT !.mod = "E"], Cmd("%"), [Cmd("z") EXCEPT !.mod = "E"]>>}
D == INSTANCE Date WITH Start <- MCStart, Walk <- 80, SubWidth <- 1, Formats <- MCFormats,
                        Times <- {0, 300, 463205, 863999}, Offsets <- {-60, 0, 330},
                        n <- u1, walked <- u2, wday <- u3, steps <- u4

--------------------------------------------------------------------------------

others == <<u1, u2, u3, u4>>
MCInit ==
    /\ Init
    /\ \/ lib = "sorted set" /\ u1 = 0 /\ u2 = 0 /\ u3 = 0 /\ u4 = 0
       \/ lib = "geo" /\ G!GeoInit /\ u2 = 0 /\ u3 = 0 /\ u4 = 0
       \/ lib = "hll" /\ H!HllInit
       \/ lib = "range" /\ R!Init /\ u3 = 0 /\ u4 = 0
       \/ lib = "date" /\ D!CalendarInit

MCNext ==
    \/ lib = "sorted set" /\ Next /\ UNCHANGED <<lib, others>>
    \/ lib = "geo" /\ G!GeoNext /\ UNCHANGED <<lib, vars, u2, u3, u4>>
    \/ lib = "hll" /\ H!HllNext /\ UNCHANGED <<lib, vars>>
    \/ lib = "range" /\ R!Next /\ UNCHANGED <<lib, vars, u3, u4>>
    \/ lib = "date" /\ D!NextDay /\ UNCHANGED <<lib, vars>>

MCSpec == MCInit /\ [][MCNext]_<<vars, lib, others>>

--------------------------------------------------------------------------------
(* The properties of the libraries, said of the behaviours that are theirs. *)

\* Boxes are the cells they should be and a search misses no member of its
\* circle's bounding box: BoxesExact and RadiusComplete of Geo.
GeoExact == lib = "geo" => G!BoxesExact /\ G!RadiusComplete

\* Packed counters do not disturb one another, and no count is stale:
\* CountersExact and CountFresh of Hll.
HllExact == lib = "hll" => H!CountersExact /\ H!CountFresh

\* Operations on lists of ranges and on bounds are those on the sets of points
\* they stand for (CoverExact, PredicatesExact and SplitExact of Range); dates
\* and their arithmetic agree with a calendar that is walked day by day
\* (DatesExact of Date); and reading a date inverts writing it and refuses
\* what disagrees (ParseExact of Date).
CalculationsExact ==
    /\ lib = "range" => R!CoverExact /\ R!PredicatesExact /\ R!SplitExact
    /\ lib = "date" => D!DatesExact /\ D!ParseExact
=============================================================================
