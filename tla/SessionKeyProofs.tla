--------------------------- MODULE SessionKeyProofs ---------------------------
(***************************************************************************)
(* Theorems of Identity about the keys: a session key is the same exactly    *)
(* when the identity is, and the three resolvers agree.                      *)
(***************************************************************************)
EXTENDS Identity, SequenceTheorems, TLAPS

Fields == Seq(Pieces)

NoColon(f) == \A i \in 1..Len(f) : f[i] # ":"

-------------------------------------------------------------------------------
(* Where the fields of a key end. *)

LEMMA Separator == LET c == <<":">> IN c \in Fields /\ Len(c) = 1 /\ c[1] = ":"
BY IdentityAssumption DEF Fields

LEMMA ColonShape ==
  ASSUME NEW f \in Fields, NEW r \in Fields
  PROVE  /\ Colon(f, r) \in Fields
         /\ Len(Colon(f, r)) = Len(f) + 1 + Len(r)
         /\ \A i \in 1..Len(f) : Colon(f, r)[i] = f[i]
         /\ Colon(f, r)[Len(f) + 1] = ":"
         /\ \A i \in 1..Len(r) : Colon(f, r)[Len(f) + 1 + i] = r[i]
<1> DEFINE c == <<":">>
           fc == f \o c
<1>t. Len(f) \in Nat /\ Len(r) \in Nat
  BY LenProperties DEF Fields
<1>1. c \in Fields /\ Len(c) = 1 /\ c[1] = ":"
  BY Separator
<1>2. /\ fc \in Fields
      /\ Len(fc) = Len(f) + 1
      /\ \A i \in 1..(Len(f) + 1) : fc[i] = IF i <= Len(f) THEN f[i] ELSE c[i - Len(f)]
  BY <1>1, ConcatProperties DEF Fields
<1>3. Colon(f, r) = fc \o r
  BY DEF Colon
<1> HIDE DEF c, fc
<1>4. /\ fc \o r \in Fields
      /\ Len(fc \o r) = Len(fc) + Len(r)
      /\ \A i \in 1..(Len(fc) + Len(r)) :
           (fc \o r)[i] = IF i <= Len(fc) THEN fc[i] ELSE r[i - Len(fc)]
  BY <1>2, ConcatProperties DEF Fields
<1>5. ASSUME NEW i \in 1..Len(f) PROVE Colon(f, r)[i] = f[i]
  BY <1>t, <1>2, <1>3, <1>4
<1>6. Colon(f, r)[Len(f) + 1] = ":"
  BY <1>t, <1>1, <1>2, <1>3, <1>4
<1>7. ASSUME NEW i \in 1..Len(r) PROVE Colon(f, r)[Len(f) + 1 + i] = r[i]
  <2>1. /\ Len(f) + 1 + i \in 1..(Len(fc) + Len(r))
        /\ ~(Len(f) + 1 + i <= Len(fc))
        /\ Len(f) + 1 + i - Len(fc) = i
    BY <1>t, <1>2
  <2> QED
    BY <2>1, <1>3, <1>4
<1> QED
  BY <1>t, <1>2, <1>3, <1>4, <1>5, <1>6, <1>7

\* Two sequences that are equal up to the first separator.
LEMMA SameLength ==
  ASSUME NEW f \in Fields, NEW r \in Fields, NEW g \in Fields, NEW q \in Fields,
         Colon(f, r) = Colon(g, q), Len(f) = Len(g)
  PROVE  f = g /\ r = q
<1>t. /\ Len(f) \in Nat /\ Len(r) \in Nat /\ Len(g) \in Nat /\ Len(q) \in Nat
  BY LenProperties DEF Fields
<1>1. Len(r) = Len(q)
  <2>1. Len(Colon(f, r)) = Len(f) + 1 + Len(r) /\ Len(Colon(g, q)) = Len(g) + 1 + Len(q)
    BY ColonShape
  <2> QED
    BY <1>t, <2>1
<1>2. \A i \in 1..Len(f) : f[i] = g[i]
  <2>1. \A i \in 1..Len(f) : Colon(f, r)[i] = f[i]
    BY ColonShape
  <2>2. \A i \in 1..Len(g) : Colon(g, q)[i] = g[i]
    BY ColonShape
  <2> QED
    BY <2>1, <2>2
<1>3. \A i \in 1..Len(r) : r[i] = q[i]
  <2>1. \A i \in 1..Len(r) : Colon(f, r)[Len(f) + 1 + i] = r[i]
    BY ColonShape
  <2>2. \A i \in 1..Len(q) : Colon(g, q)[Len(g) + 1 + i] = q[i]
    BY ColonShape
  <2> QED
    BY <1>1, <2>1, <2>2
<1> QED
  BY <1>1, <1>2, <1>3, SeqEqual DEF Fields

\* A first field without a separator can be told from the rest.
LEMMA FirstField ==
  ASSUME NEW f \in Fields, NEW r \in Fields, NEW g \in Fields, NEW q \in Fields,
         NoColon(f), NoColon(g), Colon(f, r) = Colon(g, q)
  PROVE  f = g /\ r = q
<1>t. Len(f) \in Nat /\ Len(g) \in Nat
  BY LenProperties DEF Fields
<1>1. ASSUME Len(f) < Len(g) PROVE FALSE
  <2>1. Len(f) + 1 \in 1..Len(g)
    BY <1>t, <1>1
  <2>2. \A i \in 1..Len(g) : Colon(g, q)[i] = g[i]
    BY ColonShape
  <2>3. Colon(f, r)[Len(f) + 1] = ":"
    BY ColonShape
  <2>4. g[Len(f) + 1] # ":"
    BY <2>1 DEF NoColon
  <2> QED
    BY <2>1, <2>2, <2>3, <2>4
<1>2. ASSUME Len(g) < Len(f) PROVE FALSE
  <2>1. Len(g) + 1 \in 1..Len(f)
    BY <1>t, <1>2
  <2>2. \A i \in 1..Len(f) : Colon(f, r)[i] = f[i]
    BY ColonShape
  <2>3. Colon(g, q)[Len(g) + 1] = ":"
    BY ColonShape
  <2>4. f[Len(g) + 1] # ":"
    BY <2>1 DEF NoColon
  <2> QED
    BY <2>1, <2>2, <2>3, <2>4
<1> QED
  BY <1>t, <1>1, <1>2, SameLength

\* So can a last one, whatever separators come before it.
LEMMA LastField ==
  ASSUME NEW f \in Fields, NEW r \in Fields, NEW g \in Fields, NEW q \in Fields,
         NoColon(r), NoColon(q), Colon(f, r) = Colon(g, q)
  PROVE  f = g /\ r = q
<1>t. /\ Len(f) \in Nat /\ Len(r) \in Nat /\ Len(g) \in Nat /\ Len(q) \in Nat
  BY LenProperties DEF Fields
<1>s. Len(f) + Len(r) = Len(g) + Len(q)
  <2>1. Len(Colon(f, r)) = Len(f) + 1 + Len(r) /\ Len(Colon(g, q)) = Len(g) + 1 + Len(q)
    BY ColonShape
  <2> QED
    BY <1>t, <2>1
<1>1. ASSUME Len(f) < Len(g) PROVE FALSE
  <2>1. Len(g) - Len(f) \in 1..Len(r) /\ Len(f) + 1 + (Len(g) - Len(f)) = Len(g) + 1
    BY <1>t, <1>s, <1>1
  <2>2. Colon(f, r)[Len(g) + 1] = r[Len(g) - Len(f)]
    <3>1. \A i \in 1..Len(r) : Colon(f, r)[Len(f) + 1 + i] = r[i]
      BY ColonShape
    <3> QED
      BY <2>1, <3>1
  <2>3. Colon(g, q)[Len(g) + 1] = ":"
    BY ColonShape
  <2> QED
    BY <2>1, <2>2, <2>3 DEF NoColon
<1>2. ASSUME Len(g) < Len(f) PROVE FALSE
  <2>1. Len(f) - Len(g) \in 1..Len(q) /\ Len(g) + 1 + (Len(f) - Len(g)) = Len(f) + 1
    BY <1>t, <1>s, <1>2
  <2>2. Colon(g, q)[Len(f) + 1] = q[Len(f) - Len(g)]
    <3>1. \A i \in 1..Len(q) : Colon(g, q)[Len(g) + 1 + i] = q[i]
      BY ColonShape
    <3> QED
      BY <2>1, <3>1
  <2>3. Colon(f, r)[Len(f) + 1] = ":"
    BY ColonShape
  <2> QED
    BY <2>1, <2>2, <2>3 DEF NoColon
<1> QED
  BY <1>t, <1>1, <1>2, SameLength

-------------------------------------------------------------------------------
(* The session key. *)

LEMMA ContextFields ==
  ASSUME NEW c \in Contexts
  PROVE  /\ {c.socket, c.cwd, c.entry, Workspace(c), c.tabId} \subseteq Fields
         /\ NoColon(c.socket) /\ NoColon(c.entry) /\ NoColon(Workspace(c))
<1>1. None \in Fields /\ NoColon(None)
  BY EmptySeq DEF None, Fields, NoColon
<1>2. /\ c.socket \in Sockets \cup {None} /\ c.cwd \in Paths \cup {None} /\ c.entry \in Entrypoints
      /\ Workspace(c) \in Workspaces \cup {None} /\ c.tabId \in Tabs \cup {None}
  BY DEF Contexts, Workspace
<1> QED
  BY <1>1, <1>2, IdentityAssumption DEF Fields, NoColon

Kind(scope) == IF scope \in {"directory", "tab"} THEN scope ELSE "workspace"

\* The fields after the kind.
Rest(scope, c) ==
  CASE Kind(scope) = "directory" -> Colon(c.cwd, c.entry)
    [] Kind(scope) = "tab" -> Colon(Workspace(c), Colon(c.tabId, c.entry))
    [] Kind(scope) = "workspace" -> Colon(Workspace(c), c.entry)

LEMMA KindField ==
  ASSUME NEW k \in {"namespace", "directory", "workspace", "tab"}
  PROVE  LET f == <<k>> IN f \in Fields /\ Len(f) = 1 /\ f[1] = k /\ NoColon(f)
BY IdentityAssumption DEF Fields, NoColon

LEMMA RestField ==
  ASSUME NEW scope, NEW c \in Contexts
  PROVE  Rest(scope, c) \in Fields
<1>1. Colon(c.tabId, c.entry) \in Fields
  BY ContextFields, ColonShape
<1>2. /\ Colon(c.cwd, c.entry) \in Fields
      /\ Colon(Workspace(c), Colon(c.tabId, c.entry)) \in Fields
      /\ Colon(Workspace(c), c.entry) \in Fields
  BY <1>1, ContextFields, ColonShape
<1> QED
  BY <1>2 DEF Rest, Kind

LEMMA ScopeKeyShape ==
  ASSUME NEW scope, NEW c \in Contexts, ScopeKey(scope, c) # None
  PROVE  ScopeKey(scope, c) = Colon(<<Kind(scope)>>, Rest(scope, c))
BY DEF ScopeKey, Kind, Rest

\* What a scope needs is there.
Resolved(scope, c) ==
  /\ c.socket # None /\ c.cwd # None
  /\ scope # "directory" => Workspace(c) # None
  /\ scope = "tab" => c.tabId # None

LEMMA SessionKeyShape ==
  ASSUME NEW scope, NEW c \in Contexts
  PROVE  /\ TmuxSessionKey(scope, c) # None <=> Resolved(scope, c)
         /\ Resolved(scope, c) =>
              TmuxSessionKey(scope, c) =
                Colon(<<"namespace">>, Colon(c.socket, Colon(<<Kind(scope)>>, Rest(scope, c))))
<1>1. ASSUME NEW f \in Fields, NEW r \in Fields PROVE Colon(f, r) # None
  <2>1. Len(Colon(f, r)) = Len(f) + 1 + Len(r) /\ Len(f) \in Nat /\ Len(r) \in Nat
    BY ColonShape, LenProperties DEF Fields
  <2> QED
    BY <2>1, EmptySeq DEF None
<1>2. Rest(scope, c) \in Fields /\ <<Kind(scope)>> \in Fields /\ <<"namespace">> \in Fields
  BY RestField, KindField DEF Kind
<1>3. /\ Colon(<<Kind(scope)>>, Rest(scope, c)) \in Fields
      /\ Colon(<<Kind(scope)>>, Rest(scope, c)) # None
  BY <1>1, <1>2, ColonShape
<1>4. c.socket \in Fields
  BY ContextFields
<1>5. Colon(<<"namespace">>, Colon(c.socket, Colon(<<Kind(scope)>>, Rest(scope, c)))) # None
  BY <1>1, <1>2, <1>3, <1>4, ColonShape
<1>6. ScopeKey(scope, c) # None <=>
        (scope # "directory" => Workspace(c) # None) /\ (scope = "tab" => c.tabId # None)
  <2>1. ASSUME (scope # "directory" => Workspace(c) # None) /\ (scope = "tab" => c.tabId # None)
        PROVE  ScopeKey(scope, c) = Colon(<<Kind(scope)>>, Rest(scope, c))
    BY <2>1 DEF ScopeKey, Kind, Rest
  <2>2. ASSUME ~((scope # "directory" => Workspace(c) # None) /\ (scope = "tab" => c.tabId # None))
        PROVE  ScopeKey(scope, c) = None
    BY <2>2 DEF ScopeKey
  <2> QED
    BY <2>1, <2>2, <1>3
<1> QED
  BY <1>3, <1>5, <1>6, ScopeKeyShape DEF TmuxSessionKey, Resolved

\* The place of an identity, by its kind.
LEMMA PlaceOfKind ==
  ASSUME NEW scope, NEW c
  PROVE  Intended(scope, c) =
           [namespace |-> c.socket, entry |-> c.entry,
            place |-> CASE Kind(scope) = "directory" -> <<"directory", c.cwd>>
                        [] Kind(scope) = "tab" -> <<"tab", Workspace(c), c.tabId>>
                        [] Kind(scope) = "workspace" -> <<"workspace", Workspace(c)>>]
BY DEF Intended, Kind

LEMMA RestInjective ==
  ASSUME NEW s, NEW t, NEW c \in Contexts, NEW d \in Contexts,
         Kind(s) = Kind(t), Rest(s, c) = Rest(t, d)
  PROVE  /\ c.entry = d.entry
         /\ Kind(s) = "directory" => c.cwd = d.cwd
         /\ Kind(s) # "directory" => Workspace(c) = Workspace(d)
         /\ Kind(s) = "tab" => c.tabId = d.tabId
<1>t. /\ {c.cwd, c.entry, Workspace(c), c.tabId} \subseteq Fields
      /\ {d.cwd, d.entry, Workspace(d), d.tabId} \subseteq Fields
      /\ NoColon(c.entry) /\ NoColon(Workspace(c)) /\ NoColon(d.entry) /\ NoColon(Workspace(d))
  BY ContextFields
<1>1. CASE Kind(s) = "directory"
  <2>1. Colon(c.cwd, c.entry) = Colon(d.cwd, d.entry)
    BY <1>1 DEF Rest
  <2> QED
    BY <1>t, <1>1, <2>1, LastField
<1>2. CASE Kind(s) = "tab"
  <2>1. Colon(Workspace(c), Colon(c.tabId, c.entry)) = Colon(Workspace(d), Colon(d.tabId, d.entry))
    BY <1>2 DEF Rest
  <2>2. Colon(c.tabId, c.entry) \in Fields /\ Colon(d.tabId, d.entry) \in Fields
    BY <1>t, ColonShape
  <2>3. Workspace(c) = Workspace(d) /\ Colon(c.tabId, c.entry) = Colon(d.tabId, d.entry)
    BY <1>t, <2>1, <2>2, FirstField
  <2>4. c.tabId = d.tabId /\ c.entry = d.entry
    BY <1>t, <2>3, LastField
  <2> QED
    BY <1>2, <2>3, <2>4
<1>3. CASE Kind(s) = "workspace"
  <2>1. Colon(Workspace(c), c.entry) = Colon(Workspace(d), d.entry)
    BY <1>3 DEF Rest
  <2> QED
    BY <1>t, <1>3, <2>1, FirstField
<1> QED
  BY <1>1, <1>2, <1>3 DEF Kind

\* The session key identifies the identity, in any two contexts.
LEMMA KeyIdentifies ==
  ASSUME NEW s, NEW t, NEW c \in Contexts, NEW d \in Contexts,
         Resolved(s, c), Resolved(t, d)
  PROVE  TmuxSessionKey(s, c) = TmuxSessionKey(t, d) <=> Intended(s, c) = Intended(t, d)
<1> DEFINE ScopePart(u, e) == Colon(<<Kind(u)>>, Rest(u, e))
<1>t. /\ c.socket \in Fields /\ d.socket \in Fields /\ NoColon(c.socket) /\ NoColon(d.socket)
      /\ Rest(s, c) \in Fields /\ Rest(t, d) \in Fields
  BY ContextFields, RestField
<1>k. /\ <<"namespace">> \in Fields /\ NoColon(<<"namespace">>)
      /\ <<Kind(s)>> \in Fields /\ NoColon(<<Kind(s)>>)
      /\ <<Kind(t)>> \in Fields /\ NoColon(<<Kind(t)>>)
  BY KindField DEF Kind
<1>p. ScopePart(s, c) \in Fields /\ ScopePart(t, d) \in Fields
  BY <1>t, <1>k, ColonShape
<1>q. Colon(c.socket, ScopePart(s, c)) \in Fields /\ Colon(d.socket, ScopePart(t, d)) \in Fields
  BY <1>t, <1>p, ColonShape
<1>1. /\ TmuxSessionKey(s, c) = Colon(<<"namespace">>, Colon(c.socket, ScopePart(s, c)))
      /\ TmuxSessionKey(t, d) = Colon(<<"namespace">>, Colon(d.socket, ScopePart(t, d)))
  BY SessionKeyShape
<1>2. ASSUME TmuxSessionKey(s, c) = TmuxSessionKey(t, d)
      PROVE  Intended(s, c) = Intended(t, d)
  <2>1. Colon(c.socket, ScopePart(s, c)) = Colon(d.socket, ScopePart(t, d))
    BY <1>k, <1>q, <1>1, <1>2, FirstField
  <2>2. c.socket = d.socket /\ ScopePart(s, c) = ScopePart(t, d)
    BY <1>t, <1>p, <2>1, FirstField
  <2>3. <<Kind(s)>> = <<Kind(t)>> /\ Rest(s, c) = Rest(t, d)
    BY <1>t, <1>k, <2>2, FirstField
  <2>4. Kind(s) = Kind(t)
    BY <2>3
  <2> QED
    BY <2>2, <2>3, <2>4, RestInjective, PlaceOfKind DEF Kind
<1>3. ASSUME Intended(s, c) = Intended(t, d)
      PROVE  TmuxSessionKey(s, c) = TmuxSessionKey(t, d)
  <2>1. /\ c.socket = d.socket /\ c.entry = d.entry
        /\ Intended(s, c).place = Intended(t, d).place
    BY <1>3 DEF Intended
  <2>2. Kind(s) = Kind(t)
    BY <2>1, PlaceOfKind DEF Kind
  <2>3. /\ Kind(s) = "directory" => c.cwd = d.cwd
        /\ Kind(s) # "directory" => Workspace(c) = Workspace(d)
        /\ Kind(s) = "tab" => c.tabId = d.tabId
    BY <2>1, <2>2, PlaceOfKind DEF Kind
  <2>4. Rest(s, c) = Rest(t, d)
    BY <2>1, <2>2, <2>3 DEF Rest, Kind
  <2> QED
    BY <1>1, <2>1, <2>2, <2>4
<1> QED
  BY <1>2, <1>3

-------------------------------------------------------------------------------
(* The theorems. *)

\* A popup as some file and some context gave it.
WasOpened(x) ==
  \E f \in Files \cup OtherFiles, c \in Contexts :
    LET scope == Load(f).scope IN
    /\ Resolved(scope, c)
    /\ x = [key |-> TmuxSessionKey(scope, c), shell |-> Intended(scope, c)]

IdentityInv ==
  /\ cfgFile \in Files \cup OtherFiles
  /\ stateFile \in Documents
  /\ context \in Contexts
  /\ \A x \in opened : WasOpened(x)

LEMMA PopupsWereOpened ==
  ASSUME cfgFile \in Files \cup OtherFiles, context \in Contexts, NEW x \in Popups
  PROVE  WasOpened(x)
<1> DEFINE scope == Load(cfgFile).scope
<1>1. /\ x = [key |-> TmuxSessionKey(scope, context), shell |-> Intended(scope, context)]
      /\ x.key # None
  BY DEF Popups
<1> HIDE DEF scope
<1>2. Resolved(scope, context)
  BY <1>1, SessionKeyShape
<1> QED
  BY <1>1, <1>2 DEF WasOpened, scope

LEMMA IdentityInvariant == Spec => []IdentityInv
<1>1. Init => IdentityInv
  <2>1. Bare \in Contexts
    BY IdentityAssumption DEF Bare, Contexts
  <2> QED
    BY <2>1 DEF Init, IdentityInv, Documents
<1>2. IdentityInv /\ [Next]_vars => IdentityInv'
  <2> SUFFICES ASSUME IdentityInv, [Next]_vars PROVE IdentityInv'
    OBVIOUS
  <2>1. ASSUME NEW f \in Files, Edit(f) PROVE IdentityInv'
    BY <2>1 DEF IdentityInv, Edit, WasOpened
  <2>2. ASSUME NEW f, NEW v, Focus(f, v) PROVE IdentityInv'
    BY <2>2 DEF IdentityInv, Focus, files, WasOpened
  <2>3. CASE Open
    <3>1. \A x \in opened' : WasOpened(x)
      BY <2>3, PopupsWereOpened DEF IdentityInv, Open
    <3> QED
      BY <2>3, <3>1 DEF IdentityInv, Open, files, WasOpened
  <2>4. CASE UNCHANGED vars
    BY <2>4 DEF IdentityInv, vars, files, WasOpened
  <2> QED
    BY <2>1, <2>2, <2>3, <2>4 DEF Next
<1> QED
  BY <1>1, <1>2, PTL DEF Spec

\* tmuxSessionKey: two popups, of any two contexts and files, get the same
\* session exactly when they have the same namespace, scope and entrypoint,
\* whatever separators their directories and tabs contain.
THEOREM SessionKeyIsIdentity == Spec => []OneShellPerIdentity
<1>1. IdentityInv => OneShellPerIdentity
  <2> SUFFICES ASSUME IdentityInv, NEW x \in opened \cup Popups, NEW y \in opened \cup Popups
               PROVE  (x.key = y.key) <=> (x.shell = y.shell)
    BY DEF OneShellPerIdentity
  <2>1. WasOpened(x) /\ WasOpened(y)
    BY PopupsWereOpened DEF IdentityInv
  <2> QED
    BY <2>1, KeyIdentifies DEF WasOpened
<1> QED
  BY <1>1, IdentityInvariant, PTL

\* legacyStateKey: in every context from which popup-shell gets a session,
\* toggle gets the key of the same scope and fields.
THEOREM ToggleAgreesWithPopupShell == Spec => []ResolversAgree
<1>1. IdentityInv => ResolversAgree
  <2> DEFINE scope == Load(cfgFile).scope
  <2> SUFFICES ASSUME IdentityInv, TmuxSessionKey(scope, context) # None
               PROVE  /\ LegacyStateKey(scope, context) # None
                      /\ TmuxSessionKey(scope, context) =
                           Colon(<<"namespace">>, Colon(context.socket, LegacyStateKey(scope, context)))
    BY DEF ResolversAgree
  <2> HIDE DEF scope
  <2>1. context \in Contexts /\ Resolved(scope, context)
    BY SessionKeyShape DEF IdentityInv
  <2>2. LegacyStateKey(scope, context) = ScopeKey(scope, context)
    BY <2>1 DEF LegacyStateKey, ScopeKey, IsValidScope, Resolved
  <2> QED
    BY <2>1, <2>2 DEF TmuxSessionKey
<1> QED
  BY <1>1, IdentityInvariant, PTL

\* diagnoseConnection: the session the doctor reports is the one popup-shell
\* opens, in every context and from every file.
THEOREM DoctorAgreesWithPopupShell == Spec => []DoctorNamesSession
<1>1. IdentityInv => DoctorNamesSession
  <2> SUFFICES ASSUME IdentityInv, context.entry = DefaultEntrypoint
               PROVE  DoctorSession(DiagnoseConfig(cfgFile), context)
                        = TmuxSessionKey(Load(cfgFile).scope, context)
    BY DEF DoctorNamesSession
  <2>1. [context EXCEPT !.entry = DefaultEntrypoint] = context
    BY DEF IdentityInv, Contexts
  <2>2. DiagnoseConfig(cfgFile).scope =
          IF IsValidScope(Load(cfgFile).scope) THEN Load(cfgFile).scope ELSE "workspace"
    BY DEF DiagnoseConfig, Load, Defaults
  <2>3. ASSUME NEW scope, ~IsValidScope(scope)
        PROVE  TmuxSessionKey("workspace", context) = TmuxSessionKey(scope, context)
    BY <2>3 DEF TmuxSessionKey, ScopeKey, IsValidScope
  <2> QED
    BY <2>1, <2>2, <2>3 DEF DoctorSession
<1> QED
  BY <1>1, IdentityInvariant, PTL
===============================================================================
