---------------------------- MODULE MCDriveWalk ----------------------------
(***************************************************************************)
(* A department's folder with a subfolder, a folder outside it, a document *)
(* in each, and a shortcut that leads up, down, outside or nowhere.        *)
(***************************************************************************)
EXTENDS DriveWalk

CONSTANTS root, sub, outside, retro, other, link

Folder(parents) == [kind |-> "folder", parents |-> parents, target |-> Nowhere]
File(parents) == [kind |-> "file", parents |-> parents, target |-> Nowhere]
Shortcut(parents, to) == [kind |-> "shortcut", parents |-> parents, target |-> to]

Tree(above, to) ==
    (root :> Folder(<<>>)) @@ (sub :> Folder(<<root>>)) @@ (outside :> Folder(<<>>))
        @@ (retro :> File(above)) @@ (other :> File(<<outside>>))
        @@ (link :> Shortcut(<<sub>>, to))

SomeTrees ==
    {Tree(above, to) : above \in {<<sub>>, <<outside, sub>>},
                       to \in {root, sub, outside, retro, other, Nowhere}}
SomeMoves == {<<>>, <<root>>, <<sub>>, <<outside>>, <<sub, outside>>}
=============================================================================
