------------------------------- MODULE MCFiles -------------------------------
(* Two processes on small file systems. *)
EXTENDS Files, TLC

CONSTANTS p1, p2

Rel(s) == [abs |-> FALSE, elems |-> s]
Abs(s) == [abs |-> TRUE, elems |-> s]
Ask(call, path) == [call |-> call, path |-> path, new |-> None]

MCRequests ==
  {Ask("open", Abs(<<"a", "x">>)), Ask("create", Abs(<<"a", "x">>)), Ask("create", Abs(<<"a", "..">>)),
   Ask("mkdir", Abs(<<"a", "x">>)), Ask("mknod", Rel(<<"x">>)),
   Ask("unlink", Abs(<<"a">>)), Ask("unlink", Abs(<<"a", "..">>)), Ask("unlink", Abs(<<"a", "x">>)),
   Ask("chdir", Abs(<<"a", "x">>)), Ask("chdir", Rel(<<"..">>)),
   [call |-> "link", path |-> Abs(<<"a", "x">>), new |-> Rel(<<"x">>)]}

Dir(up, self) == [NoEntries EXCEPT ![".."] = up, !["."] = self] 
Inode(t, n) == [type |-> t, nlink |-> n]

\* The directory a; a with the file a/x; and a with the directory a/x, where a
\* process may be.
WithDir == [dinode |-> [i \in Inums |-> CASE i = 1 -> Inode("dir", 2) [] i = 2 -> Inode("dir", 1)
                                          [] OTHER -> Inode("free", 0)],
            entries |-> [i \in Inums |-> CASE i = 1 -> [Dir(1, 1) EXCEPT !["a"] = 2]
                                           [] i = 2 -> Dir(1, 2) [] OTHER -> NoEntries],
            cwd |-> 1]
WithFile == [WithDir EXCEPT !.dinode[3] = Inode("file", 1), !.entries[2]["x"] = 3]
WithDirs == [WithDir EXCEPT !.dinode[2] = Inode("dir", 2), !.dinode[3] = Inode("dir", 1),
                            !.entries[2]["x"] = 3, !.entries[3] = Dir(2, 3)]
MCTrees == {WithDir, WithFile, WithDirs, [WithDirs EXCEPT !.cwd = 3]}

Symm == Permutations(Procs)
==============================================================================
