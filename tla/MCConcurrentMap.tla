-------------------------- MODULE MCConcurrentMap --------------------------
(***************************************************************************)
(* Three threads on a table in whose first version all keys share a        *)
(* bucket.  A copied table has size / 0.75 + 1 buckets: one, which is full *)
(* with one key and grows to 13, of which x and z share one; three, for    *)
(* the resize of a chain of two; or nine, which are enough for all keys.   *)
(* The last two setups use the map, the others only its table.             *)
(***************************************************************************)
EXTENDS SequentialMap

CONSTANTS p1, p2, p3, x, y, z, nx, mx, ny, nz, mz, oz

MCThread  == {p1, p2, p3}
MCKey     == {x, y, z}
MCNode    == {nx, mx, ny, nz, mz, oz}
MCHash    == [k \in MCKey |-> IF k = x THEN 117 ELSE IF k = y THEN 27 ELSE 0]
MCNodeKey == [n \in MCNode |-> IF n \in {nz, mz, oz} THEN z ELSE IF n = ny THEN y ELSE x]

Get(k)       == [op |-> "get", key |-> k, node |-> Null]
Insert(k, n) == [op |-> "insert", key |-> k, node |-> n]
Erase(k)     == [op |-> "erase", key |-> k, node |-> Null]
Reserve(c)   == [op |-> "reserve", capacity |-> c]

Threads(a, b, c) == [p \in MCThread |-> IF p = p1 THEN a ELSE IF p = p2 THEN b ELSE c]

Setup(size, chain_, program) ==
  [size |-> size, chain |-> chain_, program |-> program]

\* Insertions, two of them of one key, that grow the table, as reserve does.
InsertProgram ==
  Threads(<<Insert(x, nx), Get(x)>>, <<Insert(x, mx), Insert(y, ny)>>,
          <<Reserve(2), Get(z)>>)

\* Insertions and erasures in one bucket, with no resize.
EraseProgram ==
  Threads(<<Insert(x, nx), Erase(x), Get(x)>>, <<Erase(z), Insert(z, mz)>>,
          <<Get(y), Erase(z)>>)

\* Erasures and gets while the table is resized.
ResizeProgram ==
  Threads(<<Erase(y), Get(y), Erase(y)>>, <<Get(z), Erase(x)>>, <<Reserve(4)>>)

\* An insertion, an erasure and a resize that meet in one bucket.
MixedProgram ==
  Threads(<<Insert(x, nx), Erase(x), Get(x)>>, <<Erase(z)>>, <<Reserve(2)>>)

\* An assignment, an update and an erasure of one key that is in the map.
AssignProgram ==
  Threads(<<Insert(z, mz), Get(z)>>, <<Erase(z), Get(z)>>, <<Insert(z, oz)>>)
AssignUse == Threads(<<"assign", "read">>, <<"plain", "read">>, <<"update">>)

\* Two updates that insert a key, in a table that is full.
UpdateProgram ==
  Threads(<<Insert(x, nx)>>, <<Insert(x, mx)>>, <<Get(x), Get(z)>>)
UpdateUse == Threads(<<"update">>, <<"update">>, <<"read", "read">>)

AssignSetup == Setup(9, <<nz>>, AssignProgram)
UpdateSetup == Setup(1, <<nz>>, UpdateProgram)
TableSetups == {Setup(1, <<nz>>, InsertProgram), Setup(9, <<ny, nz>>, EraseProgram),
                Setup(3, <<ny, nz>>, ResizeProgram)}

MCSetups    == TableSetups \cup {AssignSetup, UpdateSetup}
MixedSetups == {Setup(1, <<nz>>, MixedProgram)}

MCUse == [s \in MCSetups \cup MixedSetups |->
            IF s = AssignSetup THEN AssignUse
            ELSE IF s = UpdateSetup THEN UpdateUse
            ELSE [p \in MCThread |-> [i \in 1 .. Len(s.program[p]) |-> "plain"]]]
=============================================================================
