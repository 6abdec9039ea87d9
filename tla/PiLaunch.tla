------------------------------- MODULE PiLaunch -------------------------------
(***************************************************************************)
(* How the Pi subprocess is told which model to use and given the key for  *)
(* it: BuildArgs and EffectiveProvider of internal/pirpc/launch.go and     *)
(* InjectCredentials of internal/pirpc/env.go, an entry of the environment *)
(* at a time.  Starting the process is left to a host that is not written. *)
(*                                                                         *)
(* Names of providers stand for what ToLower and TrimSpace leave of them,  *)
(* and names of variables for what EqualFold takes as the same.            *)
(***************************************************************************)
EXTENDS Integers, Sequences

CONSTANTS Providers,    \* names of providers, known and unknown
          Models,       \* what stands behind the provider in a model
          OtherVars,    \* all the other variables
          Spellings,    \* ways of writing the name of a variable
          Values,       \* values of variables, keys among them
          Blank,        \* the empty string, and all that TrimSpace makes empty
          Environments  \* environments that Brunel may be started in

VARIABLES base,      \* the environment it was started in
          opts,      \* LaunchOptions
          cred,      \* the credential: a provider and its key
          pc,        \* the step of InjectCredentials, or its result
          at,        \* entries of base that have been looked at
          replaced,  \* the key has been put in
          result     \* the environment for Pi

vars == <<base, opts, cred, pc, at, replaced, result>>

-----------------------------------------------------------------------------
\* providerCredentialEnv; a provider outside its domain is not known.
KeyVarOf == [openrouter |-> "OPENROUTER_API_KEY",
             anthropic  |-> "ANTHROPIC_API_KEY",
             openai     |-> "OPENAI_API_KEY",
             gemini     |-> "GEMINI_API_KEY",
             google     |-> "GEMINI_API_KEY"]
Known == DOMAIN KeyVarOf
KeyVars == {KeyVarOf[p] : p \in Known}

\* KEY=VALUE; an entry without "=" names nothing.
Entry == [var : KeyVars \cup OtherVars, spelling : Spellings \cup {"canonical"},
          assigned : BOOLEAN, value : Values]
Names(e, v) == e.assigned /\ e.var = v

\* prefix is Blank when the model has no "/", or nothing in front of it.
Options == [provider : Providers \cup {Blank}, prefix : Providers \cup {Blank},
            model : Models \cup {Blank}]
Credential == [provider : Providers \cup {Blank}, key : Values]

OpenRouterCredential(key) == [provider |-> "openrouter", key |-> key]

EffectiveProvider(o) == IF o.provider # Blank THEN o.provider ELSE o.prefix

\* BuildArgs: a model is required, and handed on with the prefix it has.
ModelGiven(o) == o.prefix # Blank \/ o.model # Blank
BuildArgs(o) == [provider |-> o.provider, prefix |-> o.prefix, model |-> o.model]

\* What Pi is told to use: --provider, or else the prefix of --model.
PiUses(args) == IF args.provider # Blank THEN args.provider ELSE args.prefix

Var == KeyVarOf[EffectiveProvider(opts)]
Canonical == [var |-> Var, spelling |-> "canonical", assigned |-> TRUE,
              value |-> cred.key]

Init == /\ base \in Environments /\ opts \in Options /\ cred \in Credential
        /\ pc = "check" /\ at = 0 /\ replaced = FALSE /\ result = <<>>

Given == <<base, opts, cred>>

\* A provider that is not known, or no key: Pi is left to find its own.
NothingToInject == EffectiveProvider(opts) \notin Known \/ cred.key = Blank

\* The key is that of the provider that Pi is to use, or of its other name.
Matches == /\ cred.provider \in Known
           /\ KeyVarOf[cred.provider] = Var

Check ==
  /\ pc = "check"
  /\ \/ NothingToInject /\ pc' = "unchanged" /\ result' = base
     \/ ~NothingToInject /\ ~Matches /\ pc' = "mismatch" /\ result' = base
     \/ ~NothingToInject /\ Matches /\ pc' = "copy" /\ result' = result
  /\ UNCHANGED <<Given, at, replaced>>

\* The first entry of the variable becomes the new one, in whatever case it is
\* written; the others are dropped.
CopyEntry ==
  LET e == base[at + 1] IN
  /\ pc = "copy" /\ at < Len(base)
  /\ at' = at + 1
  /\ \/ ~Names(e, Var) /\ result' = Append(result, e) /\ UNCHANGED replaced
     \/ Names(e, Var) /\ replaced /\ UNCHANGED <<result, replaced>>
     \/ /\ Names(e, Var) /\ ~replaced
        /\ result' = Append(result, Canonical) /\ replaced' = TRUE
  /\ UNCHANGED <<Given, pc>>

AppendKey ==
  /\ pc = "copy" /\ at = Len(base)
  /\ result' = IF replaced THEN result ELSE Append(result, Canonical)
  /\ pc' = "injected"
  /\ UNCHANGED <<Given, at, replaced>>

Finished == pc \in {"unchanged", "mismatch", "injected"} /\ UNCHANGED vars

Next == Check \/ CopyEntry \/ AppendKey \/ Finished

Spec == Init /\ [][Next]_vars

-----------------------------------------------------------------------------
(* Properties.                                                              *)

Entries(s) == {s[i] : i \in DOMAIN s}

\* env.go:91-96: on Windows the names of variables have no case, so Pi would
\* see one of several entries of a variable; it is given one, with the key,
\* and everything else as it was.
OneKey ==
  pc = "injected" =>
    /\ \E i \in DOMAIN result :
         /\ result[i] = Canonical
         /\ \A j \in DOMAIN result \ {i} : ~Names(result[j], Var)
    /\ Entries(result) =
         {e \in Entries(base) : ~Names(e, Var)} \cup {Canonical}

\* env.go:63-68, launch.go:36-39: a key is put in no variable but that of its
\* own provider, and only when Pi is told to use that provider.
KeyStaysWithProvider ==
  pc # "copy" =>
    \A e \in Entries(result) \ Entries(base) :
      /\ cred.provider \in Known /\ e.var = KeyVarOf[cred.provider]
      /\ ModelGiven(opts) =>
           /\ PiUses(BuildArgs(opts)) \in Known
           /\ KeyVarOf[PiUses(BuildArgs(opts))] = e.var
=============================================================================
