--------------------------- MODULE InstanceAccess ---------------------------
(***************************************************************************)
(* What a connection may do with a workspace: a call is authenticated by   *)
(* its token (middleware.ts, http.ts) and authorized by the grant of its   *)
(* workspace, which the registry asks for whenever it resolves one; an     *)
(* edit then takes its time, and the grants may change meanwhile.          *)
(***************************************************************************)
EXTENDS InstanceOAuth, WorkspaceEdit

CONSTANT Local       \* the edits that come with the token of the owner

ASSUME AccessAssumption == Local \subseteq Edits /\ \A s \in Scenes : s.edits \in BOOLEAN

accessVars == <<oauthVars, editVars>>

-----------------------------------------------------------------------------
AccessInit == OAuthInit /\ EditInit

\* authenticateRequest, and the authorizer of the registry
Authenticated(e) == e \in Local \/ \E t \in LiveTokens(tokens) : t.kind = "access"
Authorized(e) == e \in Local \/ Active \in grantsFile.held

Call(e) ==
    /\ phase = "up" /\ scene.edits /\ Authenticated(e) /\ Authorized(e)
    /\ ReadFile(e) \/ Submit(e)

EditStep ==
    /\ phase = "up" /\ UNCHANGED oauthVars
    /\ \/ \E e \in Edits : Call(e) \/ Proceed(e) \/ Fails(e)
       \/ scene.edits /\ \E x \in Outside : WriteOutside(x)

AccessNext ==
    \/ EditStep
    \/ OAuthNext /\ IF phase # "down" /\ phase' = "down" THEN EditsStop ELSE UNCHANGED editVars

-----------------------------------------------------------------------------
(* Properties *)

\* An edit that was answered with success is in the file: none of the edits of
\* this server overwrites another one that it has not read.
EditKept == \A e \in Edits : edit[e].at = "done" => e \in content
=============================================================================
