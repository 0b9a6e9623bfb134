------------------------------ MODULE Locales -------------------------------
(***************************************************************************)
(* Which locales an admin supports, which of them a visitor gets, and what *)
(* a translated string is (core/i18n.go).  A locale is a tag; Base gives   *)
(* the language of every tag that parses.  A string is the message it says *)
(* with the language of its words and the number of pseudo-locale brackets *)
(* around it.                                                              *)
(***************************************************************************)
EXTENDS Naturals, Sequences, FiniteSets

CONSTANTS Base,       \* the language of a tag, for the tags that parse
          Framework,  \* the locales of the embedded catalogs
          Nil

English == "en"
Pseudo == "en-XA"

ASSUME LocalesAssumption ==
  /\ {English, Pseudo} \cup Framework \subseteq DOMAIN Base
  /\ Base[Pseudo] = Base[English]
  /\ Nil \notin DOMAIN Base
-----------------------------------------------------------------------------
(* NewI18n: the options of an admin to its supported locales.              *)

Available(a) == {English} \cup Framework \cup a.catalogs

Listed(a) == IF a.locales = {} THEN Available(a) ELSE a.locales

Supported(a) == Listed(a) \cup (IF a.pseudo THEN {Pseudo} ELSE {})

Default(a) == IF a.default = Nil THEN English ELSE a.default

\* The errors of NewCatalogTranslator and NewI18n: an admin with other options
\* is never mounted.
Mountable(a) == /\ a.catalogs \subseteq DOMAIN Base
                /\ a.locales \subseteq Available(a)
                /\ Default(a) \in Listed(a)

SwitcherOn(a) == a.switcher /\ Cardinality(Supported(a)) >= 2
-----------------------------------------------------------------------------
(* localeMatcher and Resolve.                                              *)

\* language.Matcher at confidence High: the supported locale of the same
\* language.  The pseudo-locale is not among those it knows.
MatchTag(a, tag) ==
  LET near == {s \in Supported(a) \ {Pseudo} : Base[s] = Base[tag]}
  IN IF tag \in near THEN tag
     ELSE IF near = {} THEN Nil ELSE CHOOSE s \in near : TRUE

Match(a, candidate) ==
  IF candidate \in Supported(a) THEN candidate
  ELSE IF candidate \in DOMAIN Base THEN MatchTag(a, candidate) ELSE Nil

\* The tags of an Accept-Language header are tried in order.
MatchAcceptLanguage(a, header) ==
  LET hits == SelectSeq(header, LAMBDA tag : MatchTag(a, tag) # Nil)
  IN IF hits = <<>> THEN Nil ELSE MatchTag(a, Head(hits))

\* The first of some answers that is one.
FirstFound(answers) ==
  answers[CHOOSE i \in DOMAIN answers :
            answers[i] # Nil /\ \A j \in DOMAIN answers : j < i => answers[j] = Nil]

\* Wrong form of Resolve, which ChoiceSticks refutes: what the browser prefers
\* beats what the visitor chose.
ResolveHeaderFirst(a, cookie, answer, header) ==
  FirstFound(<<MatchAcceptLanguage(a, header), Match(a, cookie), Match(a, answer), Default(a)>>)

Resolve(a, cookie, answer, header) ==
  FirstFound(<<Match(a, cookie), Match(a, answer), MatchAcceptLanguage(a, header), Default(a)>>)
-----------------------------------------------------------------------------
(* Translator.                                                             *)

Messages == {"framework", "host"}

\* The English text a message is written in.
Msgid(m) == [says |-> m, in |-> English, brackets |-> 0]

InCatalog(a, locale, m) == locale \in (IF m = "framework" THEN Framework ELSE a.catalogs)

\* CatalogTranslator: a text that is no msgid, or has no translation, is
\* returned unchanged.
Localize(a, locale, text) ==
  IF text = Msgid(text.says) /\ InCatalog(a, locale, text.says)
  THEN [text EXCEPT !.in = locale] ELSE text

\* pseudoTranslator: brackets once, isAlreadyPseudo.
Translate(a, locale, text) ==
  IF locale # Pseudo THEN Localize(a, locale, text)
  ELSE IF text.brackets > 0 THEN text
  ELSE [Localize(a, English, text) EXCEPT !.brackets = 1]
=============================================================================
