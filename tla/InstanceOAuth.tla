---------------------------- MODULE InstanceOAuth ----------------------------
(***************************************************************************)
(* The OAuth state of one instance: the registered clients (oauth.ts), the *)
(* tokens (token.ts), the workspaces they may use (workspace-grants.ts),   *)
(* and the migration that every start runs over them (migration.ts).       *)
(*                                                                         *)
(* An earlier version kept the clients and tokens of each workspace in     *)
(* files of its own, or one set for the active workspace.  These files are *)
(* read at every start and never changed.                                  *)
(*                                                                         *)
(* A handler of the server runs without interruption once its body is      *)
(* there, so that it is one step; the migration writes several files, and  *)
(* the runtime may stop after each.                                        *)
(***************************************************************************)
EXTENDS Naturals, Sequences, FiniteSets

CONSTANTS
    Workspaces,      \* registered; each names its client and tokens of the earlier version
    Active,          \* the active workspace
    NewClients,      \* what may register
    Scenes           \* what the earlier version left, and bounds: the clients that register,
                     \* the number of codes, of pairs of tokens, of tokens that expire, of stops
                     \* of the runtime, of kinds of failing writes and damaged files, and the
                     \* workspaces the user grants and revokes

ASSUME OAuthAssumption ==
    /\ Active \in Workspaces /\ Workspaces \cap NewClients = {} /\ Workspaces \cap Nat = {}
    /\ \A s \in Scenes :
         /\ s.global \in BOOLEAN
         /\ {s.scoped, s.torn, s.granting} \subseteq SUBSET Workspaces
         /\ s.clients \subseteq NewClients
         /\ {s.codes, s.pairs, s.expired, s.stops, s.faults} \subseteq Nat

VARIABLES
    scene,                               \* never changes
    clientsFile, tokensFile, grantsFile, marker,
    phase, plan,                         \* the start, and what its migration found
    clients, codes, tokens,              \* in memory
    pairs,                               \* the issued pairs of tokens, and what they were issued for
    made, expired,                       \* the codes made, and the tokens whose time is over
    wanted, unwanted,                    \* workspaces the user granted and revoked
    registered, deleted,                 \* clients that were answered to be so
    crashes, faults

files == <<clientsFile, tokensFile, grantsFile, marker>>
memory == <<clients, codes, tokens>>
history == <<pairs, made, expired>>
user == <<wanted, unwanted, registered, deleted>>
oauthVars == <<scene, files, phase, plan, memory, history, user, crashes, faults>>

-----------------------------------------------------------------------------
Clients == Workspaces \cup NewClients
PairIds == Workspaces \cup 1 .. scene.pairs
Tokens == [pair : PairIds, kind : {"access", "refresh"}]
Pair(p) == [pair : {p}, kind : {"access", "refresh"}]

ClientOf(p) == IF p \in Workspaces THEN p ELSE pairs[p].client
Origins == [code : 1 .. scene.codes] \cup [refresh : PairIds]

File(contents) == [state : {"absent", "sound", "damaged"}, held : SUBSET contents]
Absent == [state |-> "absent", held |-> {}]
Sound(contents) == [state |-> "sound", held |-> contents]
Exists(file) == file.state # "absent"

NoPlan == [clients |-> {}, tokens |-> {}, grants |-> {}, changed |-> FALSE, written |-> TRUE]

OAuthTypeOK ==
    /\ scene \in Scenes
    /\ clientsFile \in File(Clients) /\ tokensFile \in File(Tokens)
    /\ grantsFile \in File(Workspaces) /\ marker \in BOOLEAN
    /\ phase \in {"down", "clients", "tokens", "grant", "granting", "mark", "load", "up"}
    /\ clients \subseteq Clients /\ tokens \subseteq Tokens
    /\ codes \subseteq [id : 1 .. scene.codes, client : Clients]
    /\ pairs \in Seq([client : Clients, from : Origins]) /\ Len(pairs) <= scene.pairs
    /\ made \in 0 .. scene.codes /\ expired \subseteq Tokens
    /\ wanted \subseteq Workspaces /\ unwanted \subseteq Workspaces
    /\ registered \subseteq NewClients /\ deleted \subseteq NewClients
    /\ crashes \in 0 .. scene.stops

OAuthInit ==
    /\ scene \in Scenes
    /\ clientsFile = IF scene.global THEN Sound({Active}) ELSE Absent
    /\ tokensFile = IF scene.global THEN Sound(Pair(Active)) ELSE Absent
    /\ grantsFile = Absent /\ marker = FALSE
    /\ phase = "down" /\ plan = NoPlan
    /\ clients = {} /\ codes = {} /\ tokens = {}
    /\ pairs = <<>> /\ made = 0 /\ expired = {}
    /\ wanted = {} /\ unwanted = {} /\ registered = {} /\ deleted = {}
    /\ crashes = 0 /\ faults = {}

Fault(kind) ==
    /\ Cardinality(faults) < scene.faults /\ kind \notin faults
    /\ faults' = faults \cup {kind}

-----------------------------------------------------------------------------
(* The start: migrateOAuthStateToInstance, and then the services load *)

\* A registry of an earlier workspace counts when both of its files can be read.
Readable == scene.scoped \ scene.torn
LiveTokens(set) == set \ expired
ScopedTokens == LiveTokens(UNION {Pair(w) : w \in Readable})

\* The tokens of the instance may be all there is of the version before: they
\* were of use for the active workspace only.
LegacyGlobal == clientsFile.held # {} \/ LiveTokens(tokensFile.held) # {}
Derived ==
    Readable \cup (IF LegacyGlobal /\ ScopedTokens = {} THEN {Active} ELSE {})

\* The previous tokens are merged into those of the instance.
OnlyScoped == ScopedTokens
Merged == LiveTokens(tokensFile.held) \cup ScopedTokens

ReadAll ==
    /\ phase = "down"
    /\ plan' = [clients |-> clientsFile.held \cup Readable, tokens |-> Merged, grants |-> Derived,
                changed |-> ~(Readable \subseteq clientsFile.held
                              /\ ScopedTokens \subseteq tokensFile.held),
                written |-> TRUE]
    /\ phase' = IF plan'.changed THEN "clients" ELSE "grant"
    /\ UNCHANGED <<files, memory, history, user, faults>>

\* The second file is not written when the first could not be.
WriteClients ==
    /\ phase = "clients"
    /\ \/ clientsFile' = Sound(plan.clients) /\ phase' = "tokens" /\ UNCHANGED faults
       \/ Fault("migration") /\ phase' = "grant" /\ UNCHANGED clientsFile
    /\ UNCHANGED <<tokensFile, grantsFile, marker, plan, memory, history, user>>
WriteTokens ==
    /\ phase = "tokens" /\ phase' = "grant"
    /\ \/ tokensFile' = Sound(plan.tokens) /\ UNCHANGED faults
       \/ Fault("migration") /\ UNCHANGED tokensFile
    /\ UNCHANGED <<clientsFile, grantsFile, marker, plan, memory, history, user>>

\* The grants are derived once: not when they were before, which the marker says,
\* and the file itself.
GrantsUndone == ~marker \/ ~Exists(grantsFile)
GrantsDue == ~marker
BeginGrants ==
    /\ phase = "grant"
    /\ phase' = IF ~GrantsDue THEN "load"
                ELSE IF Exists(grantsFile) \/ plan.grants = {} THEN "mark" ELSE "granting"
    /\ UNCHANGED <<files, plan, memory, history, user, faults>>

\* One grant after the other is saved; one that fails does not stop the others.
GrantNext(w) ==
    /\ phase = "granting" /\ w \in plan.grants
    /\ \/ grantsFile' = Sound(grantsFile.held \cup {w}) /\ UNCHANGED faults
       \/ Fault("grant") /\ UNCHANGED grantsFile
    /\ plan' = [plan EXCEPT !.grants = @ \ {w}, !.written = @ /\ w \in grantsFile'.held]
    /\ phase' = IF plan'.grants = {} THEN "mark" ELSE phase
    /\ UNCHANGED <<clientsFile, tokensFile, marker, memory, history, user>>

WriteMarker ==
    /\ phase = "mark" /\ phase' = "load"
    /\ \/ /\ marker' = (marker \/ (plan.written /\ grantsFile.state # "damaged"))
          /\ UNCHANGED faults
       \/ Fault("marker") /\ UNCHANGED marker
    /\ UNCHANGED <<clientsFile, tokensFile, grantsFile, plan, memory, history, user>>

\* What cannot be read is taken as empty, and replaced when something is saved.
Load ==
    /\ phase = "load" /\ phase' = "up"
    /\ clients' = clientsFile.held
    /\ tokens' = LiveTokens(tokensFile.held)
    /\ plan' = NoPlan
    /\ UNCHANGED <<files, codes, history, user, faults>>

StartStep ==
    \/ ReadAll \/ WriteClients \/ WriteTokens \/ BeginGrants
    \/ (\E w \in Workspaces : GrantNext(w)) \/ WriteMarker \/ Load

-----------------------------------------------------------------------------
(* The endpoints *)

\* A registry is saved before it is used; what cannot be saved did not happen.
SaveClients(set) == clientsFile' = Sound(set) /\ clients' = set
SaveTokens(set) == tokensFile' = Sound(LiveTokens(set)) /\ tokens' = set
Unsaved == UNCHANGED <<clientsFile, tokensFile, clients, tokens>> /\ Fault("save")

RegisterClient(k) ==
    /\ k \in scene.clients \ (registered \cup deleted)
    /\ \/ SaveClients(clients \cup {k}) /\ registered' = registered \cup {k} /\ UNCHANGED faults
       \/ Unsaved /\ UNCHANGED registered
    /\ UNCHANGED <<tokensFile, tokens, codes, history, deleted>>

\* The tokens of a client outlive it.
DeleteClients(set) ==
    /\ set \cap clients # {}
    /\ \/ /\ SaveClients(clients \ set)
          /\ deleted' = deleted \cup (set \cap NewClients)
          /\ registered' = registered \ set
          /\ UNCHANGED faults
       \/ Unsaved /\ UNCHANGED <<registered, deleted>>
    /\ UNCHANGED <<tokensFile, tokens, codes, history>>

Authorize(k) ==
    /\ k \in clients /\ made < scene.codes
    /\ made' = made + 1
    /\ codes' = codes \cup {[id |-> made', client |-> k]}
    /\ UNCHANGED <<clientsFile, clients, tokensFile, tokens, pairs, expired, registered, deleted,
                   faults>>

\* issuePair: the new pair is saved together with the end of what it replaces.
KeptBeside(replaced) == tokens
Kept(replaced) == tokens \ {[pair |-> replaced, kind |-> "refresh"]}
Issue(client, from, kept) ==
    LET id == Len(pairs) + 1 IN
    /\ id <= scene.pairs
    /\ pairs' = Append(pairs, [client |-> client, from |-> from])
    /\ SaveTokens(kept \cup Pair(id))

\* A code is gone when it is tried, whether the verifier fits, and whether the
\* pair can be saved.  It outlives its client, but is of no use without it.
TryCode(code) ==
    /\ code \in codes /\ code.client \in clients
    /\ codes' = codes \ {code}
    /\ \/ Issue(code.client, [code |-> code.id], tokens) /\ UNCHANGED faults
       \/ UNCHANGED <<tokensFile, tokens, pairs, faults>>
       \/ Fault("save") /\ UNCHANGED <<tokensFile, tokens, pairs>>
    /\ UNCHANGED <<clientsFile, clients, made, expired, registered, deleted>>
CodeExpires(code) ==
    /\ code \in codes
    /\ codes' = codes \ {code}
    /\ UNCHANGED <<clientsFile, clients, tokensFile, tokens, history, registered, deleted, faults>>

Refresh(t) ==
    /\ t \in LiveTokens(tokens) /\ t.kind = "refresh" /\ ClientOf(t.pair) \in clients
    /\ \/ Issue(ClientOf(t.pair), [refresh |-> t.pair], Kept(t.pair)) /\ UNCHANGED faults
       \/ Unsaved /\ UNCHANGED pairs
    /\ UNCHANGED <<clientsFile, clients, codes, made, expired, registered, deleted>>

\* authenticate: an access token that is used too late is removed.
UseExpired(t) ==
    /\ t \in tokens \cap expired /\ t.kind = "access"
    /\ \/ SaveTokens(tokens \ {t}) /\ UNCHANGED faults
       \/ Unsaved
    /\ UNCHANGED <<clientsFile, clients, codes, history, registered, deleted>>

Registration == \E k \in Clients : RegisterClient(k)
Deletion == DeleteClients(Clients) \/ \E k \in Clients : DeleteClients({k})
Authorization == \E k \in Clients : Authorize(k)
TokenRequest == (\E code \in codes : TryCode(code)) \/ (\E t \in tokens : Refresh(t))
ClientStep ==
    /\ phase = "up"
    /\ \/ Registration \/ Deletion \/ Authorization \/ TokenRequest
       \/ \E code \in codes : CodeExpires(code)
       \/ \E t \in tokens : UseExpired(t)
    /\ UNCHANGED <<grantsFile, marker, phase, plan, wanted, unwanted>>

\* The grants are read again for every call; a file that cannot be read grants
\* nothing and is not written.
Grant(w) ==
    /\ w \notin grantsFile.held /\ grantsFile.state # "damaged"
    /\ \/ /\ grantsFile' = Sound(grantsFile.held \cup {w})
          /\ wanted' = wanted \cup {w} /\ unwanted' = unwanted \ {w}
          /\ UNCHANGED faults
       \/ Fault("save") /\ UNCHANGED <<grantsFile, wanted, unwanted>>
Revoke(w) ==
    /\ w \in grantsFile.held
    /\ \/ /\ grantsFile' = Sound(grantsFile.held \ {w})
          /\ wanted' = wanted \ {w} /\ unwanted' = unwanted \cup {w}
          /\ UNCHANGED faults
       \/ Fault("save") /\ UNCHANGED <<grantsFile, wanted, unwanted>>

UserStep ==
    /\ phase = "up"
    /\ \E w \in scene.granting : Grant(w) \/ Revoke(w)
    /\ UNCHANGED <<clientsFile, tokensFile, marker, phase, plan, memory, history, registered,
                   deleted>>

-----------------------------------------------------------------------------
(* Time and failures *)

\* Of a pair, the access token expires first.
Expire(t) ==
    /\ t \in (tokens \cup ScopedTokens) \ expired /\ Cardinality(expired) < scene.expired
    /\ t.kind = "refresh" => [t EXCEPT !.kind = "access"] \in expired
    /\ expired' = expired \cup {t}
    /\ UNCHANGED <<files, phase, plan, memory, pairs, made, user, crashes, faults>>

Crash ==
    /\ phase # "down" /\ crashes < scene.stops
    /\ crashes' = crashes + 1
    /\ phase' = "down" /\ plan' = NoPlan
    /\ clients' = {} /\ codes' = {} /\ tokens' = {}
    /\ UNCHANGED <<files, history, user, faults>>

\* A file is found damaged at the next start.
Damaged == [state |-> "damaged", held |-> {}]
Damage ==
    /\ phase = "down"
    /\ \/ /\ Exists(clientsFile) /\ Fault("clients") /\ clientsFile' = Damaged
          /\ UNCHANGED <<tokensFile, grantsFile>>
       \/ /\ Exists(tokensFile) /\ Fault("tokens") /\ tokensFile' = Damaged
          /\ UNCHANGED <<clientsFile, grantsFile>>
       \/ /\ Exists(grantsFile) /\ Fault("grants") /\ grantsFile' = Damaged
          /\ UNCHANGED <<clientsFile, tokensFile>>
    /\ UNCHANGED <<marker, phase, plan, memory, history, user, crashes>>

OAuthNext ==
    /\ UNCHANGED scene
    /\ \/ (StartStep \/ ClientStep \/ UserStep) /\ UNCHANGED crashes
       \/ (\E t \in Tokens : Expire(t)) \/ Crash \/ Damage

OAuthSpec == OAuthInit /\ [][OAuthNext]_oauthVars

-----------------------------------------------------------------------------
(* Properties *)

\* A code, and a refresh token of this instance, is exchanged for one pair, also
\* when the runtime stops around it.  (A refresh token of an earlier registry
\* comes back with every start.)
ExchangedOnce ==
    \A i, j \in 1 .. Len(pairs) :
        /\ i # j /\ pairs[i].from = pairs[j].from
        => \E w \in scene.scoped : pairs[i].from = [refresh |-> w]

\* What was answered stays: a client until it is deleted, and the last refresh
\* token of a connection until it expires, over every start and migration,
\* unless the file itself is damaged.
Replaced(p) == \E i \in 1 .. Len(pairs) : pairs[i].from = [refresh |-> p]
IssuedIsKept ==
    phase = "up" =>
        /\ "clients" \in faults \/ registered \subseteq clients
        /\ deleted \cap clients = {}
        /\ "tokens" \in faults \/ \A i \in 1 .. Len(pairs) :
               LET t == [pair |-> i, kind |-> "refresh"] IN
               t \in expired \/ Replaced(i) \/ t \in tokens

\* The workspaces that may be used are those the user asked for, and those of
\* the version before, until they are revoked: "an existing grants file means a
\* previous build already applied the migration, including a user's deliberate
\* revocations" (migration.ts:249).  The active workspace is taken for one of the
\* version before in two more cases: where the marker could not be written, by a
\* client that registered since; and where a start stopped before its grants were
\* written, by the merged clients, once the scoped tokens have expired.
MergedBefore == crashes > 0 /\ Readable # {} /\ ScopedTokens = {}
Inherited ==
    Readable \cup (IF scene.global \/ "marker" \in faults \/ MergedBefore THEN {Active} ELSE {})
GrantsFollowUser ==
    /\ unwanted \cap grantsFile.held = {}
    /\ grantsFile.held \subseteq wanted \cup Inherited
    /\ "grants" \in faults \/ wanted \subseteq grantsFile.held
=============================================================================
