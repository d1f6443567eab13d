------------------------------- MODULE Registry -------------------------------
(***************************************************************************)
(* How the provider argument of a query selects a provider and a server:   *)
(* get_provider() in providers/__init__.py and base_url_override() in      *)
(* tables.py read the same text in two ways.                               *)
(*                                                                         *)
(* Of that text the code tells apart the word that strip().lower() leaves, *)
(* whether it was written with capitals, and whether white space surrounds *)
(* it.                                                                     *)
(***************************************************************************)
EXTENDS Providers

DefaultProvider == "openalex"

\* provider_names(): sorted.
ListedProviders == <<"arxiv", "crossref", "openalex">>

Name == [word : ProviderNames \cup {"", "unlisted"}, capitals : BOOLEAN, padded : BOOLEAN]

Plain(word) == [word |-> word, capitals |-> FALSE, padded |-> FALSE]

\* (name or DEFAULT_PROVIDER).strip().lower()
Resolved(name) == IF name = Plain("") THEN DefaultProvider ELSE name.word

\* Otherwise get_provider() raises ValueError.
IsKnown(name) == Resolved(name) \in ProviderNames

\* What the process environment holds for VGI_SCHOLAR_<PROVIDER>_BASE_URL.
Environment == [ProviderNames -> {"unset", "blank", "url"}]

\* base_url_override() looks for the name in capitals, white space and all;
\* a variable of white space only counts as none.
IsOverridden(env, name) ==
  /\ ~ name.padded
  /\ name.word \in ProviderNames
  /\ env[name.word] = "url"

\* get_provider(name, base_url_override(name)): the server it talks to.
ServerFor(env, name) == IF IsOverridden(env, name) THEN "override" ELSE "live"

\* What scripts/run_sql_e2e.py exports: every provider at the mock server.
E2eEnvironment == [p \in ProviderNames |-> "url"]

FirstIsDefault(p) ==                     \* mutant: default by position
  [provider |-> p, requires_key |-> FALSE, default |-> p = ListedProviders[1]]

\* One row of scholar_providers.
ProviderRow(p) ==
  [provider |-> p, requires_key |-> FALSE, default |-> p = DefaultProvider]

ProviderRows == [i \in 1 .. Len(ListedProviders) |-> ProviderRow(ListedProviders[i])]
=============================================================================
