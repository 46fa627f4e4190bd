------------------------------ MODULE OrgMirror ------------------------------
(***************************************************************************)
(* The WorkOS organization behind a row of the application: found by the   *)
(* row's id, made when it is missing, and pointed to from the row.         *)
(*                                                                         *)
(* WorkOS keeps the id of a row unique among organizations; the n-th       *)
(* organization made for the row is n, and 0 is none.                      *)
(***************************************************************************)
EXTENDS Integers

CONSTANTS
    Readers,        \* who asks for the organization
    MaxReads,       \* bound: asks begun
    MaxMade,        \* bound: organizations made
    MirrorScenes    \* what varies between deployments

\* faults: a call to WorkOS throws. deletes: the application deletes organizations.
MirrorSceneType == [reads : 0..MaxReads, faults : BOOLEAN, deletes : BOOLEAN]
ASSUME MirrorAssumption == MaxReads \in Nat /\ MaxMade \in Nat \ {0}
ASSUME MirrorSceneAssumption == MirrorScenes \subseteq MirrorSceneType

VARIABLES
    mirrorScene,
    backing,    \* the organization WorkOS has for the row
    pointer,    \* what the row points to
    made,       \* organizations made so far
    reader,     \* reader[r]: where r is, and what it found
    spoiled,    \* ghost: readers a failure or a deletion has hit
    reads

mirrorVars == <<mirrorScene, backing, pointer, made, reader, spoiled, reads>>

-----------------------------------------------------------------------------
Where(r, pc) == reader[r].pc = pc
Moves(r, pc) == reader' = [reader EXCEPT ![r].pc = pc]
Finds(r, org) == reader' = [reader EXCEPT ![r] = [pc |-> "point", found |-> org]]

\* toWorkosOrgId: the pointer, or ensureOrg, which is also called by itself.
AskOrg(r, anew) ==
    /\ Where(r, "idle") /\ reads < mirrorScene.reads
    /\ reads' = reads + 1
    /\ IF pointer # 0 /\ ~anew THEN UNCHANGED reader ELSE Moves(r, "find")
    /\ UNCHANGED <<mirrorScene, backing, pointer, made, spoiled>>

\* getOrganizationByExternalId.
Find(r) ==
    /\ Where(r, "find")
    /\ IF backing # 0 THEN Finds(r, backing) ELSE Moves(r, "create")
    /\ UNCHANGED <<mirrorScene, backing, pointer, made, spoiled, reads>>

FindThrows(r) ==
    /\ Where(r, "find") /\ mirrorScene.faults
    /\ Moves(r, "failed")
    /\ spoiled' = spoiled \cup {r}
    /\ UNCHANGED <<mirrorScene, backing, pointer, made, reads>>

\* (mutant of Create)
CreateOnce(r) ==
    /\ Where(r, "create")
    /\ IF backing = 0
       THEN /\ made < MaxMade
            /\ backing' = made + 1 /\ made' = made + 1
            /\ Finds(r, made + 1)
       ELSE Moves(r, "failed") /\ UNCHANGED <<backing, made>>
    /\ UNCHANGED <<mirrorScene, pointer, spoiled, reads>>

\* createOrganization: refused if somebody else has made it, and then looked for again.
Create(r) ==
    /\ Where(r, "create")
    /\ IF backing = 0
       THEN /\ made < MaxMade
            /\ backing' = made + 1 /\ made' = made + 1
            /\ Finds(r, made + 1)
       ELSE Moves(r, "again") /\ UNCHANGED <<backing, made>>
    /\ UNCHANGED <<mirrorScene, pointer, spoiled, reads>>

\* The call throws, whether WorkOS made the organization or not.
CreateThrows(r) ==
    /\ Where(r, "create") /\ mirrorScene.faults
    /\ \/ UNCHANGED <<backing, made>>
       \/ backing = 0 /\ made < MaxMade /\ backing' = made + 1 /\ made' = made + 1
    /\ Moves(r, "again")
    /\ spoiled' = spoiled \cup {r}
    /\ UNCHANGED <<mirrorScene, pointer, reads>>

LookAgain(r) ==
    /\ Where(r, "again")
    /\ IF backing # 0 THEN Finds(r, backing) ELSE Moves(r, "failed")
    /\ UNCHANGED <<mirrorScene, backing, pointer, made, spoiled, reads>>

WritePointer(r) ==
    /\ Where(r, "point")
    /\ pointer' = reader[r].found
    /\ reader' = [reader EXCEPT ![r] = [pc |-> "idle", found |-> 0]]
    /\ UNCHANGED <<mirrorScene, backing, made, spoiled, reads>>

\* deleteOrg: already gone is success; the pointer stays.
DeleteBacking ==
    /\ mirrorScene.deletes /\ backing # 0
    /\ backing' = 0
    /\ spoiled' = spoiled \cup {r \in Readers : ~Where(r, "idle")}
    /\ UNCHANGED <<mirrorScene, pointer, made, reader, reads>>

MirrorInit ==
    /\ mirrorScene \in MirrorScenes
    /\ backing = 0 /\ pointer = 0 /\ made = 0 /\ reads = 0 /\ spoiled = {}
    /\ reader = [r \in Readers |-> [pc |-> "idle", found |-> 0]]

MirrorNext ==
    \/ \E r \in Readers :
          \/ \E anew \in BOOLEAN : AskOrg(r, anew)
          \/ Find(r) \/ FindThrows(r)
          \/ Create(r) \/ CreateThrows(r)
          \/ LookAgain(r)
          \/ WritePointer(r)
    \/ DeleteBacking

\* "Two first reads of the same row race": neither is refused, and a lost answer
\* makes no second organization (org-mirror.ts:86-97). An ask fails only if a call
\* failed, or the organization was deleted, while it ran; without deletions one
\* organization is made, and the row points to it or nowhere.
MirrorAnswers ==
    /\ \A r \in Readers : Where(r, "failed") => r \in spoiled
    /\ ~mirrorScene.deletes => made <= 1 /\ pointer \in {0, backing}
=============================================================================
