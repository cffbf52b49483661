----------------------------- MODULE MCBackups -----------------------------
(***************************************************************************)
(* Two slots beside a dump and a restore of one block, in workloads that   *)
(* each race a few endpoints and leave a few ids that were never used.     *)
(* Floors f1 and f2 have the levels 0 and 1.                               *)
(***************************************************************************)
EXTENDS BackupsProofs

CONSTANTS b1, b2, f1, f2, f3, a1, a2, a3, a4, s1, s2

MCFloor(l, h) == [block |-> b1, level |-> l, hotspots |-> h]
MCOn(n) == [floor |-> f1, number |-> n]
MCFilled(table, rows) == [x \in table |-> IF x \in DOMAIN rows THEN rows[x] ELSE NULL]

\* Block b1 with the given rows; fresh are the ids never used.
MCStart(may, floors, apartments, fresh) ==
    [calls |-> may, block |-> {b1},
     floor |-> MCFilled(Floors, floors), apartment |-> MCFilled(Apartments, apartments),
     origin |-> [x \in Ids |-> CASE x \in fresh -> NULL
                                 [] x \in Blocks \ fresh -> Branch
                                 [] x \in Floors \ fresh -> b1
                                 [] x \in Apartments \ fresh -> f1]]

\* The lists of hotspots that requests draw: none, or a1, on whichever floor.
MCPlans == {{}, {a1}}

MCGround(h) == [f \in {f1} |-> MCFloor(0, h)]
MCTwoFloors(h) == [f \in {f1, f2} |-> IF f = f1 THEN MCFloor(0, h) ELSE MCFloor(1, {})]
MCNone == [a \in {} |-> NULL]
MCOne(n) == [a \in {a1} |-> MCOn(n)]
MCTwo(m, n) == [a \in {a1, a2} |-> MCOn(IF a = a1 THEN m ELSE n)]

\* Two writers of floors.
MCLevels == MCStart({s1, s2} \X {"floors.create", "floors.update", "floors.remove"},
                    MCGround({}), MCNone, {f2, f3})
\* A plan is copied while it is edited, or while its floors and apartments go.
MCPlanEdited ==
    MCStart({<<s1, "apartments.cloneFromFloor">>, <<s2, "floors.update">>},
            MCTwoFloors({a1}), MCOne(1), {a2})
MCPlanGone ==
    MCStart({<<s1, "apartments.cloneFromFloor">>, <<s2, "apartments.remove">>,
             <<s2, "floors.remove">>},
            MCTwoFloors({a1}), MCOne(1), {a2})
\* A block is duplicated while it is edited or removed.
MCDuplicates ==
    MCStart({<<s1, "blocks.duplicate">>, <<s1, "blocks.update">>, <<s2, "floors.update">>, <<s2, "blocks.create">>,
             <<s2, "blocks.remove">>},
            MCGround({a1}), MCTwo(1, 2), {b2, f2, f3, a3, a4})
\* Apartments are copied to a floor on which others get theirs.
MCCopies ==
    MCStart(({s1, s2} \X {"apartments.copyFromFloor"})
                \cup ({s2} \X {"apartments.create", "apartments.bulkCreateOnFloor",
                               "apartments.remove", "floors.remove"}),
            MCTwoFloors({}), MCTwo(0, 1), {a3, a4})
\* Two writers of numbers, with stale copies.
MCRenumbered ==
    MCStart({s1, s2} \X {"apartments.update", "apartments.bulkCreateOnFloor",
                         "apartments.remove"},
            MCGround({}), MCTwo(0, 1), {a3})
\* A dump runs beside insertions and removals; then restores do.
MCDumps == MCStart({s1} \X {"dump", "floors.create", "floors.remove", "blocks.remove",
                            "apartments.create", "apartments.remove"},
                   MCGround({}), MCOne(1), {f2, a2})
MCFloorsRestored == MCStart({s1} \X {"dump", "restore", "floors.create", "floors.remove"},
                            MCGround({}), MCOne(1), {f2})
MCPlansRestored == MCStart({s1} \X {"dump", "restore", "floors.update", "apartments.remove"},
                           MCGround({a1}), MCOne(0), {})
MCNumbersRestored == MCStart({s1} \X {"dump", "restore", "apartments.bulkCreateOnFloor",
                                      "apartments.remove"},
                             MCGround({a1}), MCOne(0), {a2})

MCWorkloads == {MCLevels, MCPlanEdited, MCPlanGone, MCDuplicates, MCCopies, MCDumps,
                MCRenumbered, MCFloorsRestored, MCPlansRestored, MCNumbersRestored}
=============================================================================
