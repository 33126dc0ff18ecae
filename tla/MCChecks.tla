-------------------------------- MODULE MCChecks --------------------------------
(* Lock files and reports for the two checks of a build. *)
EXTENDS Checks

(* A file of three packages, of which one has two versions, with a comment, a link and a name without
   a version; and shorter files. *)
Entry(kind, name, version, section) == [kind |-> kind, name |-> name, version |-> version, section |-> section]

Mixed == << Entry("locked", 2, "v1", "main"), Entry("other", 0, "v1", "main"), Entry("locked", 1, "v1", "main"),
            Entry("locked", 1, "v2", "dev"), Entry("loose", 3, "v1", "dev"), Entry("link", 4, "v1", "main") >>

SomeFiles == {Mixed, <<Entry("locked", 1, "v1", "main")>>, <<Entry("loose", 1, "v1", "main")>>, <<>>}

-----------------------------------------------------------------------------
(* A repository of two modules with a file of the same name, a file of JaCoCo's layout in each of
   them, and a file at the root; the diff has two of them. *)
MCTracked == {<<"a", "x">>, <<"b", "x">>, <<"a", "src", "p", "j">>, <<"b", "src", "p", "j">>, <<"y">>}
MCExcluded == {<<"b", "src", "p", "j">>, <<"vendor", "x">>}
MCChanged == {<<f, 1>> : f \in {<<"a", "x">>, <<"a", "src", "p", "j">>}}
MCGoModules == {[name |-> <<"host", "m">>, dir |-> <<"a">>]}
MCManifests == {<<"a">>}
MCRoots == <<<<"src">>>>

Seen(path, where, more, format, line, count) ==
  [path |-> path, where |-> where, more |-> more, format |-> format, line |-> line, count |-> count]

Stmt(n) == [kind |-> "stmt", count |-> n]
Jacoco(mi, ci, mb, cb) == [mi |-> mi, ci |-> ci, mb |-> mb, cb |-> cb]

MCObservations ==
  {Seen(<<"host", "m", "x">>, "relative", <<>>, "go", 1, c) : c \in {{0}, {0, 2}, {2}}}
  \cup {Seen(<<"x">>, "relative", <<>>, "lcov", l, n) : l \in 1..2, n \in 0..1}
  \cup {Seen(<<"b", "src", "p", "j">>, "relative", <<>>, "lcov", 1, 1)}
  \cup {Seen(<<"b", "x">>, w, <<>>, "coveralls", 1, 1) : w \in {"inside", "outside", "up"}}
  \cup {Seen(<<"y">>, "relative", <<>>, "clover", 1, c) :
          c \in {Stmt(0), [kind |-> "cond", true |-> 1, false |-> 0], [kind |-> "cond", true |-> 1, false |-> 2]}}
  \cup {Seen(<<"x">>, "relative", <<<<"vendor", "x">>, <<"b", "x">>>>, "cobertura", 1, c) :
          c \in {Stmt(1), [kind |-> "branch", covered |-> 1, total |-> 2], [kind |-> "branch", covered |-> 0, total |-> 2]}}
  \cup {Seen(<<"p", "j">>, "relative", <<<<"b", "src", "p", "j">>>>, "jacoco", 1, c) :
          c \in {Jacoco(1, 0, 0, 0), Jacoco(0, 1, 0, 0), Jacoco(1, 1, 0, 0), Jacoco(0, 2, 1, 1), Jacoco(0, 2, 0, 1)}}
=============================================================================
