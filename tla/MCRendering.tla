----------------------------- MODULE MCRendering ----------------------------
(* A small instance of Rendering for TLC.                                  *)
EXTENDS Rendering, TLC

MCBase == [tag \in {"en", "en-XA", "fr", "fr-CA", "de"} |->
             CASE tag \in {"en", "en-XA"} -> "en" [] tag \in {"fr", "fr-CA"} -> "fr" [] OTHER -> tag]

Options(catalogs, locales, default, pseudo, switcher, resolver) ==
  [catalogs |-> catalogs, locales |-> locales, default |-> default, pseudo |-> pseudo,
   switcher |-> switcher, resolver |-> resolver]

\* Two languages and what accounts have saved; English and its pseudo-locale;
\* one language for all, with a leftover cookie perhaps; and two that are never
\* mounted.
MCDeployments ==
  { Options({"fr"}, {"en", "fr"}, Nil, FALSE, TRUE, "saved"),
    Options({}, {"en"}, Nil, TRUE, TRUE, Nil),
    Options({"fr-CA"}, {"en", "fr-CA"}, "fr-CA", FALSE, FALSE, "en"),
    Options({}, {"fr"}, Nil, FALSE, TRUE, Nil),
    Options({"??"}, {}, Nil, FALSE, TRUE, Nil) }

MCHeaders == { <<"de", "en">> }

\* The override is in the later directory: names are tried before directories.
MCDirs == <<"d1", "d2">>
MCFiles == {<<"d2", "override">>, <<"d1", "resource">>, <<"d1", "default">>, <<"d2", "page">>}

MCDisks == {[f \in MCFiles |-> IF f[2] \in {"override", "default"} THEN Missing ELSE 1]}

Budget(chosen, edited, signed, deployed, forgotten) ==
  [e \in Events |-> CASE e = "choose" -> chosen [] e = "edit" -> edited [] e = "account" -> signed
                      [] e = "deploy" -> deployed [] e = "forget" -> forgotten]

\* Files change twice, or once around a choice, or choices meet accounts and
\* redeployments.
MCBudgets == { Budget(0, 2, 0, 0, 0), Budget(1, 1, 0, 0, 0), Budget(2, 0, 1, 1, 1) }

MCSymmetry == Permutations(Requests)
=============================================================================
