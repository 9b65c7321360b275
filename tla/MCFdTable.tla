----------------------------- MODULE MCFdTable -----------------------------
EXTENDS FdTable

MCPath == {<<"d">>, <<"g">>, <<"n">>, <<"d", "f">>, <<"d", "n">>}

MCArgument == {<<"d">>, <<"g">>, <<"n">>, <<"d", "f">>}

MCSize == [p \in Path |-> IF p = <<"g">> THEN 2 ELSE 0]

\* Programs that fork with a file; programs that fork with a directory whose list
\* may fail; and one program with a file and a directory that has a file, where a
\* transfer may fail and a file may be created.
MCStart ==
  LET g == <<<<"g">>, "file">>
      d == <<<<"d">>, "dir">>
      f == <<<<"d", "f">>, "file">>
  IN  {[disk |-> {g}, errors |-> 0, creates |-> 0, tasks |-> Task],
       [disk |-> {d}, errors |-> 1, creates |-> 0, tasks |-> Task],
       [disk |-> {g, d, f}, errors |-> 1, creates |-> 1, tasks |-> {Main, First}]}

=============================================================================
