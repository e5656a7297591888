------------------------------- MODULE MCInode ------------------------------
(* Instances of Inode for TLC. *)
EXTENDS Inode, TLC

CONSTANTS p1, p2

At(call, path) == [call |-> call, abs |-> FALSE, path |-> path, new |-> <<>>]
FromRoot(c) == [c EXCEPT !.abs = TRUE]
Link(old, new) == [At("link", old) EXCEPT !.new = new]

Both(x, y) == (p1 :> x) @@ (p2 :> y)

\* One makes a file and gives it a second name, the other opens it and takes the
\* names away.
LinkAndUnlink ==
    Both({At("mknod", <<"a">>), Link(<<"a">>, <<"d">>)},
         {At("open", <<"a">>), At("unlink", <<"a">>), At("unlink", <<"d">>)})

\* One makes a directory and works in it, the other removes it.
MakeAndRemove ==
    Both({FromRoot(At("mkdir", <<"d">>)), FromRoot(At("chdir", <<"d">>)),
          FromRoot(At("chdir", <<>>)), At("mknod", <<"a">>)},
         {FromRoot(At("unlink", <<"d">>)), FromRoot(At("unlink", <<"d", "a">>))})

\* Two create and remove one file.
SameFile == Both({At("create", <<"a">>), At("unlink", <<"a">>)},
                 {At("create", <<"a">>)})

\* A file and a current directory that are shared.
ForkAndExit ==
    Both({At("create", <<"a">>), At("unlink", <<"a">>), At("fork", <<>>), At("exit", <<>>)},
         {At("fork", <<>>), At("exit", <<>>)})

\* Calls that fail in every way they can.
Failures ==
    Both({At("mkdir", <<"d">>), At("create", <<"d", "a">>), At("open", <<"d">>),
          At("openw", <<"d">>), At("chdir", <<"d", "a">>), At("chdir", <<"a">>),
          Link(<<"d">>, <<"a">>), Link(<<"d", "a">>, <<"a">>), Link(<<"a">>, <<"a">>),
          Link(<<"a">>, <<"x", "a">>), At("unlink", <<"d">>), At("unlink", <<"d", "..">>),
          At("unlink", <<"a">>), At("mkdir", <<"a", "x">>), FromRoot(At("mkdir", <<>>))},
         {})

NamePrograms == {LinkAndUnlink, MakeAndRemove, SameFile, ForkAndExit, Failures}

\* iget and iupdate: an inode is in memory once, and there as it is on the disk.
OneCopyEach == TypeOK /\ OneSlotPerInode /\ WriteThrough
=============================================================================
