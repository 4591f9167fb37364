--------------------------------- MODULE Paths -------------------------------
(***************************************************************************)
(* Paths of the file system (std::path as module_loader.rs and deps.rs use *)
(* it): a text with slashes is read as a sequence of names.                *)
(***************************************************************************)
EXTENDS Integers, SequencesExt

\* The names of a path between its slashes.
Components(path) ==
  LET slashes == {0, Len(path) + 1} \cup {i \in DOMAIN path : path[i] = "/"}
      ends == SetToSortSeq(slashes, <)
      Name(j) == SubSeq(path, ends[j] + 1, ends[j + 1] - 1)
  IN SelectSeq([j \in 1..(Len(ends) - 1) |-> Name(j)], LAMBDA n : n \notin {<<>>, <<".">>})

\* A path without its "..", as canonicalize gives it.
Canonical(names) ==
  FoldLeft(LAMBDA dir, n : IF n # <<".", ".">> THEN Append(dir, n)
                           ELSE IF dir = <<>> THEN dir ELSE Front(dir),
           <<>>, names)
============================================================================
