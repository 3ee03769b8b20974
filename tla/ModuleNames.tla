----------------------------- MODULE ModuleNames -----------------------------
(***************************************************************************)
(* How Python files and what they import are named: symbols/fqn.py and the  *)
(* imports of parser/python_adapter.py.                                     *)
(*                                                                         *)
(* A dotted name is the sequence of its segments, a file a record of its    *)
(* directories and its name without the extension, an import statement a    *)
(* record of its form, module, and, as the form has them, name and alias.   *)
(***************************************************************************)
EXTENDS Integers, SequencesExt

CONSTANT SourceRoots  \* _PY_SRC_PREFIXES

\* The leading source roots are dropped, as many as there are.
BelowRoots(dirs) ==
    LET top == CHOOSE k \in 0..Len(dirs) : /\ \A j \in 1..k : dirs[j] \in SourceRoots
                                          /\ k < Len(dirs) => dirs[k + 1] \notin SourceRoots
    IN  SubSeq(dirs, top + 1, Len(dirs))

\* Mutant of FileToModuleFqn: a package is named by its file.
FileToModuleFqnInit(file) == Append(BelowRoots(file.dirs), file.stem)

\* file_to_module_fqn: a package is named by its directory.
FileToModuleFqn(file) ==
    LET dirs == BelowRoots(file.dirs)
    IN  IF file.stem = "__init__" THEN dirs ELSE Append(dirs, file.stem)

Qualify(parent, name) == Append(parent, name)

\* The map's entry: a local name and what it is taken to stand for.
Binding(name, target) == [name |-> name, target |-> target]

\* _extract_imports.  The children of a from-import start with its module: the
\* identity test that skips it holds only if the library hands out one object
\* per node, and otherwise (again) the module is bound like an imported name.
PythonImports(stmt, again) ==
    LET module == IF again /\ Head(stmt.module) # "." THEN <<Binding(Last(stmt.module), stmt.module \o stmt.module)>>
                  ELSE << >>
        target == stmt.module \o <<stmt.name>>
    IN  CASE stmt.form = "import" -> <<Binding(stmt.module[1], stmt.module)>>
          [] stmt.form = "import as" -> <<Binding(stmt.alias, stmt.module)>>
          [] stmt.form = "from" -> Append(module, Binding(stmt.name, target))
          [] stmt.form = "from as" -> Append(module, Binding(stmt.alias, target))
          [] stmt.form = "from *" -> Append(module, Binding("*", stmt.module \o <<"*">>))

-----------------------------------------------------------------------------
\* What Python takes a dotted text to be in the scope of one import; << >> if
\* the import does not say.
Denoted(stmt, text) ==
    LET through(local, meaning) == IF text[1] = local THEN meaning \o Tail(text) ELSE << >>
    IN  CASE stmt.form = "import" -> IF IsPrefix(stmt.module, text) THEN text ELSE << >>
          [] stmt.form = "import as" -> through(stmt.alias, stmt.module)
          [] stmt.form = "from" -> through(stmt.name, stmt.module \o <<stmt.name>>)
          [] stmt.form = "from as" -> through(stmt.alias, stmt.module \o <<stmt.name>>)
          [] stmt.form = "from *" -> << >>
=============================================================================
