------------------------------ MODULE MCIdentity ------------------------------
(* An instance of Identity, with config.toml files for what depends on them
   alone. *)
EXTENDS Identity

\* A directory named like a workspace, one with a ":" that continues like an
\* entrypoint, a tab id in Herdr's workspace:tab form, and a workspace and an
\* entrypoint that spell another pair when they are written together.
MCPieces == {"a", "b", "m", "n", "sh", ":", "namespace", "directory", "workspace", "tab"}
MCSockets == { <<"n">>, <<"m">> }
MCPaths == { <<"a">>, <<"a", ":", "sh">> }
MCWorkspaces == { <<"a">>, <<"a", "b">> }
MCTabs == { <<"b">>, <<"b", ":", "sh">> }
MCEntrypoints == { <<"sh">>, <<"b", "sh">> }
MCShell == <<"sh">>

Written(scope, width, height, key) ==
  [scope |-> scope, width |-> width, height |-> height, closeKey |-> key]

Scopes == {Unset, "workspace", "directory", "tab", "window"}

MCScopeFiles == {Written(s, Unset, Unset, Unset) : s \in Scopes} \cup {Missing}

\* The edges of the widths, on both sides, and values that are no number.
Sizes ==
  {Unset, Garbage} \cup [unit : {"cells", "percent"},
                         n : {-1, 0, 1, 100, 101, 255, 256, 300, 65535, 65536, 65636}]

MCSpellings == {"M-l", "M-p", "M-l; kill-server"}
MCSafeKeys == {"M-l", "M-p"}

\* Every pair of sizes of which one is among these.
FewSizes ==
  {Unset, Garbage, [unit |-> "cells", n |-> 20], [unit |-> "percent", n |-> 101]}

MCOtherFiles ==
  {Written(s, w, h, k) : s \in {Unset, "tab", "window"}, w \in Sizes, h \in FewSizes,
                         k \in MCSpellings \cup {Unset}} \cup
  {Written(s, w, h, k) : s \in {Unset, "tab", "window"}, w \in FewSizes, h \in Sizes,
                         k \in MCSpellings \cup {Unset}} \cup Unusable
===============================================================================
