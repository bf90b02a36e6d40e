------------------------------ MODULE DriveWalk ------------------------------
(***************************************************************************)
(* list_candidates of src/src/agentic/gatherers/cloud/drive.py: the walk   *)
(* of a department's Drive folder, over a tree that others edit between    *)
(* the calls, with shortcuts that may lead anywhere, also back up.         *)
(*                                                                         *)
(* A page is one entry here: a page of several is as many steps with no    *)
(* edit between.  A shortcut is resolved with the page that lists it.  The *)
(* order in which folders are taken from the stack follows the order of    *)
(* the listing, which is not known: any folder of it may be next.          *)
(***************************************************************************)
EXTENDS Naturals, Sequences, FiniteSets, SequencesExt

CONSTANTS
    Ids,          \* files, folders and shortcuts
    Root,         \* storage.folder_id
    Nowhere,      \* no folder; the target of what is no shortcut
    Trees,        \* the trees a walk may find
    Moves,        \* the parents an id may be given, none: out of reach
    MaxMoves      \* bound: moves during a walk

EntrySet == [kind : {"file", "folder", "shortcut"}, parents : Seq(Ids),
             target : Ids \cup {Nowhere}]

(* Drive keeps files, folders and shortcuts in folders, and nowhere else.  *)
OnlyFolders(t, parents) == \A n \in DOMAIN parents : t[parents[n]].kind = "folder"

ASSUME DriveAssumption ==
    /\ IsFiniteSet(Ids) /\ Root \in Ids /\ Nowhere \notin Ids
    /\ Trees \subseteq [Ids -> EntrySet]
    /\ \A t \in Trees, i \in Ids : OnlyFolders(t, t[i].parents)
    /\ \A t \in Trees : t[Root].kind = "folder"
    /\ Moves \subseteq Seq(Ids)
    /\ MaxMoves \in Nat

VARIABLES
    tree,      \* the Drive; an entry without parents is out of reach
    moved,     \* how often it was edited
    progress,  \* "walking", "listed", "failed"
    stack, visited,
    current,   \* the folder whose pages are being listed
    due,       \* what it held when the listing began
    got,       \* what its pages have returned
    nodes,     \* the metadata of every id met
    steady,    \* history: ids not moved since the walk began
    links      \* history: every <<child, parent>> there was since then

walkVars == <<progress, stack, visited, current, due, got, nodes>>
treeVars == <<tree, moved, steady, links>>
driveVars == <<treeVars, walkVars>>

ParentsOf(entry) == ToSet(entry.parents)
Children(folder) == {i \in Ids : folder \in ParentsOf(tree[i])}
LinksOf(t) == {l \in Ids \X Ids : l[2] \in ParentsOf(t[l[1]])}

DriveInit ==
    /\ tree \in Trees
    /\ moved = 0
    /\ progress = "walking"
    /\ stack = {Root} /\ visited = {}
    /\ current = Nowhere /\ due = {} /\ got = {}
    /\ nodes = <<>>
    /\ steady = Ids
    /\ links = LinksOf(tree)

(* Fault: a folder is walked again whenever it is met again.               *)
PopAlways(f) ==
    /\ progress = "walking" /\ current = Nowhere /\ f \in stack
    /\ stack' = stack \ {f}
    /\ visited' = visited \cup {f}
    /\ current' = f /\ due' = Children(f) /\ got' = {}
    /\ UNCHANGED <<treeVars, progress, nodes>>

(* The next folder of the stack, unless it was visited.                    *)
Pop(f) ==
    /\ progress = "walking" /\ current = Nowhere /\ f \in stack
    /\ stack' = stack \ {f}
    /\ visited' = visited \cup {f}
    /\ IF f \in visited THEN UNCHANGED <<current, due, got>>
       ELSE current' = f /\ due' = Children(f) /\ got' = {}
    /\ UNCHANGED <<treeVars, progress, nodes>>

(* Fault: a shortcut's target is taken to be where the shortcut is.        *)
ResolvedInPlace(i) ==
    IF tree[i].kind = "shortcut" /\ tree[i].target # Nowhere
    THEN [id |-> tree[i].target, entry |-> [tree[tree[i].target] EXCEPT !.parents = tree[i].parents]]
    ELSE [id |-> i, entry |-> tree[i]]

(* _resolve_shortcut: the target with its own metadata; a shortcut that    *)
(* names no target stays what it is.                                       *)
Resolved(i) ==
    IF tree[i].kind = "shortcut" /\ tree[i].target # Nowhere
    THEN [id |-> tree[i].target, entry |-> tree[tree[i].target]]
    ELSE [id |-> i, entry |-> tree[i]]

(* _list_page: an entry the folder holds now.                              *)
Listed(i) ==
    /\ progress = "walking" /\ i \in Children(current) \ got
    /\ got' = got \cup {i}
    /\ LET f == Resolved(i) IN
         /\ stack' = IF f.entry.kind = "folder" THEN stack \cup {f.id} ELSE stack
         /\ nodes' = [n \in DOMAIN nodes \cup {f.id} |->
                         IF n = f.id THEN f.entry ELSE nodes[n]]
    /\ UNCHANGED <<treeVars, progress, visited, current, due>>

(* No nextPageToken: whatever was there throughout has been returned.      *)
LastPage ==
    /\ progress = "walking" /\ current # Nowhere
    /\ due \cap Children(current) \subseteq got
    /\ current' = Nowhere
    /\ UNCHANGED <<treeVars, progress, stack, visited, due, got, nodes>>

Finished ==
    /\ progress = "walking" /\ current = Nowhere /\ stack = {}
    /\ progress' = "listed"
    /\ UNCHANGED <<treeVars, stack, visited, current, due, got, nodes>>

(* An API call raises, and so does the listing.                            *)
CallFails ==
    /\ progress = "walking"
    /\ progress' = "failed"
    /\ UNCHANGED <<treeVars, stack, visited, current, due, got, nodes>>

(* Someone moves an entry, to folders of the tree or out of reach.  (An    *)
(* entry that is trashed keeps its parents, leaves the listings and still  *)
(* answers to a shortcut: that is left out.)                               *)
Move(i, parents) ==
    /\ progress = "walking" /\ moved < MaxMoves
    /\ i # Root /\ parents # tree[i].parents /\ OnlyFolders(tree, parents)
    /\ moved' = moved + 1
    /\ tree' = [tree EXCEPT ![i].parents = parents]
    /\ steady' = steady \ {i}
    /\ links' = links \cup LinksOf(tree')
    /\ UNCHANGED walkVars

-----------------------------------------------------------------------------
(* _parent_chain.  A call is given an id and its memo, and returns the ids *)
(* from the root down to this one, none for None, and the memo it leaves.  *)
Unknown == <<Nowhere>>          \* not in the memo
Memos == [Ids -> Seq(Ids) \cup {Unknown}]
NothingKnown == [id \in Ids |-> Unknown]
Calls == [id : Ids, memo : Memos]
Returns == [chain : Seq(Ids), memo : Memos]

Return(id, chain, memo) == [chain |-> chain, memo |-> [memo EXCEPT ![id] = chain]]

(* One parent: "above" is what the call for it returns.                    *)
Through(id, above) ==
    IF above.chain = <<>> THEN above
    ELSE Return(id, Append(above.chain, id), above.memo)

(* The loop over the parents ends with the first that is under the root;   *)
(* None is in the memo meanwhile, the guard against cycles.                *)
Tried(call, inner) ==
    LET parents == nodes[call.id].parents
        tried[n \in 0..Len(parents)] ==
            IF n = 0 THEN Return(call.id, <<>>, call.memo)
            ELSE IF tried[n - 1].chain # <<>> THEN tried[n - 1]
            ELSE Through(call.id, inner[[id |-> parents[n], memo |-> tried[n - 1].memo]])
    IN tried[Len(parents)]

Answer(call, inner) ==
    IF call.id = Root THEN [chain |-> <<Root>>, memo |-> call.memo]
    ELSE IF call.memo[call.id] # Unknown
         THEN [chain |-> call.memo[call.id], memo |-> call.memo]
    ELSE IF call.id \notin DOMAIN nodes THEN Return(call.id, <<>>, call.memo)
    ELSE Tried(call, inner)

(* A call that goes on to a parent has put an id in the memo, so that they *)
(* never nest deeper than there are ids: no call reaches depth 0.          *)
Depth == Cardinality(Ids) + 1
ParentChain ==
    LET answers[depth \in 0..Depth] ==
            [call \in Calls |->
                IF depth = 0 THEN [chain |-> <<>>, memo |-> call.memo]
                ELSE Answer(call, answers[depth - 1])]
    IN answers[Depth]

(* _relative_path, as the ids whose names make it.                         *)
PathTo(id) == ParentChain[[id |-> id, memo |-> NothingKnown]].chain

(* list_candidates: every node but the folders, if it is under the root.   *)
Candidates ==
    {id \in DOMAIN nodes : nodes[id].kind # "folder" /\ Len(PathTo(id)) >= 2}

DriveNext ==
    \/ \E i \in Ids : Pop(i) \/ Listed(i)
    \/ LastPage
    \/ Finished
    \/ CallFails
    \/ \E i \in Ids, parents \in Moves : Move(i, parents)
    \/ progress # "walking" /\ UNCHANGED driveVars

DriveSpec == DriveInit /\ [][DriveNext]_driveVars

(* Every API call answers or raises.                                       *)
FairWalk ==
    DriveSpec /\ WF_driveVars((\E i \in Ids : Pop(i) \/ Listed(i)) \/ LastPage \/ Finished)

-----------------------------------------------------------------------------
(* Reference: what hangs from the root by links between ids that were not moved.      *)
Steadily ==
    LET Below(s) == s \cup {i \in steady : ParentsOf(tree[i]) \cap s # {}}
        level[n \in 0..Cardinality(Ids)] == IF n = 0 THEN {Root} ELSE Below(level[n - 1])
    IN level[Cardinality(Ids)]

(* A listing holds every document that stayed where it was, under folders  *)
(* that stayed where they were, while the walk went on; and every document *)
(* it holds is reached from the root by parent links, each of which was    *)
(* there during the walk: where a shortcut stands gives no path.           *)
ListingTrue ==
    progress = "listed" =>
        /\ \A i \in Steadily : tree[i].kind = "file" => i \in Candidates
        /\ \A i \in Candidates :
             LET path == PathTo(i) IN
             /\ path[1] = Root /\ path[Len(path)] = i /\ IsInjective(path)
             /\ \A k \in 2..Len(path) : <<path[k], path[k - 1]>> \in links

(* The walk ends although shortcuts close cycles: no folder is listed      *)
(* twice.                                                                  *)
WalkEnds == progress = "walking" ~> progress \in {"listed", "failed"}
=============================================================================
