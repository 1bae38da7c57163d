------------------------------ MODULE Comptes ------------------------------
(***************************************************************************)
(* One account (apps/auth/mutations.py): registration, sessions, refresh   *)
(* tokens and their rotation, one-time codes.                              *)
(*                                                                         *)
(* No resolver opens a transaction: each save commits on its own.  So a    *)
(* call is a reading and then one step for each save, with the steps of    *)
(* other calls in between, and it may die before any of them.  What a call *)
(* still has to write is in appelsA.                                       *)
(*                                                                         *)
(* Access tokens and step-up tokens are signed and stored nowhere: they    *)
(* are not in the state.                                                   *)
(***************************************************************************)
EXTENDS Naturals, Sequences, FiniteSetsExt

CONSTANTS Appareils,   \* the devices, with one call each
          JetonsMax,   \* bound: how many refresh tokens are issued
          CodesMax     \* bound: how many codes are asked for

Usages == {"step_up", "email_verify", "password_reset"}

ASSUME BornesHypothese == {JetonsMax, CodesMax} \subseteq Nat

EtatsJeton == {"vivant", "perime", "revoque"}
EtatsCode == {"vivant", "perime", "utilise"}

VARIABLES
    compte,    \* the row of the user; change: a reset has set its password
    jetons,    \* the RefreshToken rows, oldest first, each with the number of
               \* the one it was exchanged for (0: of none)
    codes,     \* the OTPRequest rows of each usage, oldest first
    appelsA    \* the next step of the call of each device

comptesVars == <<compte, jetons, codes, appelsA>>

Fini == [op |-> "fini"]

ComptesInit ==
    /\ compte = [inscrit |-> FALSE, emailVerifie |-> FALSE, enLigne |-> FALSE, change |-> FALSE]
    /\ jetons = <<>>
    /\ codes = [u \in Usages |-> <<>>]
    /\ appelsA = [a \in Appareils |-> Fini]

-----------------------------------------------------------------------------
(* A call begins with a reading and goes on with its first write *)
Commencer(a, suite) ==
    /\ appelsA[a] = Fini
    /\ appelsA' = [appelsA EXCEPT ![a] = suite]
    /\ UNCHANGED <<compte, jetons, codes>>

Continuer(a, suite) == appelsA' = [appelsA EXCEPT ![a] = suite]
Emettre(parent) == [op |-> "jeton", parent |-> parent]

(* The process that runs a call ends *)
Mourir(a) ==
    /\ appelsA[a] # Fini
    /\ Continuer(a, Fini)
    /\ UNCHANGED <<compte, jetons, codes>>

-----------------------------------------------------------------------------
(* resolve_register: the address was free when it was looked up; the unique *)
(* columns refuse the second of two registrations                           *)

Register(a) == ~ compte.inscrit /\ Commencer(a, [op |-> "inscription"])

Enregistrer(a) ==
    /\ appelsA[a].op = "inscription"
    /\ IF compte.inscrit
       THEN Continuer(a, Fini) /\ UNCHANGED compte
       ELSE Continuer(a, Emettre(0)) /\ compte' = [compte EXCEPT !.inscrit = TRUE]
    /\ UNCHANGED <<jetons, codes>>

(* resolve_login, with the right password *)
Login(a) == compte.inscrit /\ Commencer(a, [op |-> "connexion"])

MettreEnLigne(a) ==
    /\ appelsA[a].op = "connexion"
    /\ compte' = [compte EXCEPT !.enLigne = TRUE]
    /\ Continuer(a, Emettre(0))
    /\ UNCHANGED <<jetons, codes>>

(* generate_refresh_token *)
GenerateRefreshToken(a) ==
    /\ appelsA[a].op = "jeton"
    /\ Len(jetons) < JetonsMax
    /\ jetons' = Append(jetons, [etat |-> "vivant", parent |-> appelsA[a].parent])
    /\ Continuer(a, Fini)
    /\ UNCHANGED <<compte, codes>>

-----------------------------------------------------------------------------
(* resolve_refresh: est_valide, the rotation, the new token *)

Refresh(a, j) ==
    /\ jetons[j].etat = "vivant"
    /\ Commencer(a, [op |-> "rotation", jeton |-> j])

\* Faulty: the new token is issued and the old one kept.
RotationSansRevocation(a) ==
    /\ appelsA[a].op = "rotation"
    /\ Continuer(a, Emettre(appelsA[a].jeton))
    /\ UNCHANGED <<jetons, compte, codes>>

Rotation(a) ==
    /\ appelsA[a].op = "rotation"
    /\ jetons' = [jetons EXCEPT ![appelsA[a].jeton].etat = "revoque"]
    /\ Continuer(a, Emettre(appelsA[a].jeton))
    /\ UNCHANGED <<compte, codes>>

ExpirerJeton(j) ==
    /\ jetons[j].etat = "vivant"
    /\ jetons' = [jetons EXCEPT ![j].etat = "perime"]
    /\ UNCHANGED <<compte, codes, appelsA>>

(* resolve_logout: of any token there is, then of the user *)
Logout(a, j) ==
    /\ appelsA[a] = Fini
    /\ jetons' = [jetons EXCEPT ![j].etat = "revoque"]
    /\ Continuer(a, [op |-> "deconnexion"])
    /\ UNCHANGED <<compte, codes>>

MettreHorsLigne(a) ==
    /\ appelsA[a].op = "deconnexion"
    /\ compte' = [compte EXCEPT !.enLigne = FALSE]
    /\ Continuer(a, Fini)
    /\ UNCHANGED <<jetons, codes>>

-----------------------------------------------------------------------------
CodesDemandes == MapThenSumSet(LAMBDA v : Len(codes[v]), Usages)

(* resolve_request_otp, resolve_send_verification_email and               *)
(* resolve_forgot_password: the row stays although the message is not sent *)
DemanderCode(u) ==
    /\ compte.inscrit
    /\ u = "email_verify" => ~ compte.emailVerifie
    /\ CodesDemandes < CodesMax
    /\ codes' = [codes EXCEPT ![u] = Append(@, "vivant")]
    /\ UNCHANGED <<compte, jetons, appelsA>>

(* Whether an older row has expired is never read *)
ExpirerCode(u) ==
    LET n == Len(codes[u]) IN
    /\ n > 0
    /\ codes[u][n] = "vivant"
    /\ codes' = [codes EXCEPT ![u][n] = "perime"]
    /\ UNCHANGED <<compte, jetons, appelsA>>

(* Only the latest code of a usage counts, and only the right one: the code *)
(* that the user types may be of an older row, and is refused then          *)
CodeBon(u, n) == n = Len(codes[u]) /\ codes[u][n] = "vivant"

(* resolve_verify_otp, resolve_verify_email, resolve_reset_password *)
LireCode(a, u) ==
    /\ u = "email_verify" => ~ compte.emailVerifie
    /\ \E n \in DOMAIN codes[u] :
         /\ CodeBon(u, n)
         /\ Commencer(a, [op |-> "code", usage |-> u, rang |-> n])

\* Faulty: the row of the code is not saved.
UtiliserCodeSansMarque(a) ==
    LET c == appelsA[a] IN
    /\ c.op = "code"
    /\ Continuer(a, IF c.usage = "step_up" THEN Fini
                    ELSE [op |-> "effet", usage |-> c.usage])
    /\ UNCHANGED <<codes, compte, jetons>>

UtiliserCode(a) ==
    LET c == appelsA[a] IN
    /\ c.op = "code"
    /\ codes' = [codes EXCEPT ![c.usage][c.rang] = "utilise"]
    /\ Continuer(a, IF c.usage = "step_up" THEN Fini
                    ELSE [op |-> "effet", usage |-> c.usage])
    /\ UNCHANGED <<compte, jetons>>

VerifierEmail(a) ==
    /\ appelsA[a].op = "effet" /\ appelsA[a].usage = "email_verify"
    /\ compte' = [compte EXCEPT !.emailVerifie = TRUE]
    /\ Continuer(a, Fini)
    /\ UNCHANGED <<jetons, codes>>

ChangerMotDePasse(a) ==
    /\ appelsA[a].op = "effet" /\ appelsA[a].usage = "password_reset"
    /\ compte' = [compte EXCEPT !.change = TRUE, !.emailVerifie = TRUE, !.enLigne = FALSE]
    /\ Continuer(a, [op |-> "revocation"])
    /\ UNCHANGED <<jetons, codes>>

RevoquerTous(a) ==
    /\ appelsA[a].op = "revocation"
    /\ jetons' = [j \in DOMAIN jetons |-> [jetons[j] EXCEPT !.etat = "revoque"]]
    /\ Continuer(a, Fini)
    /\ UNCHANGED <<compte, codes>>

-----------------------------------------------------------------------------
ComptesNext ==
    \/ \E a \in Appareils :
         \/ Mourir(a)
         \/ Register(a)
         \/ Enregistrer(a)
         \/ Login(a)
         \/ MettreEnLigne(a)
         \/ GenerateRefreshToken(a)
         \/ Rotation(a)
         \/ MettreHorsLigne(a)
         \/ UtiliserCode(a)
         \/ VerifierEmail(a)
         \/ ChangerMotDePasse(a)
         \/ RevoquerTous(a)
         \/ \E j \in DOMAIN jetons : Refresh(a, j) \/ Logout(a, j)
         \/ \E u \in Usages : LireCode(a, u)
    \/ \E j \in DOMAIN jetons : ExpirerJeton(j)
    \/ \E u \in Usages : DemanderCode(u) \/ ExpirerCode(u)

ComptesSpec == ComptesInit /\ [][ComptesNext]_comptesVars

-----------------------------------------------------------------------------
\* Legal values.
ComptesTypeOK ==
    /\ compte \in [inscrit : BOOLEAN, emailVerifie : BOOLEAN, enLigne : BOOLEAN,
                   change : BOOLEAN]
    /\ jetons \in Seq([etat : EtatsJeton, parent : 0 .. JetonsMax])
    /\ \A u \in Usages : codes[u] \in Seq(EtatsCode)

\* The rotation of resolve_refresh: the token a new one was exchanged for is
\* revoked, and stays so, whatever other calls (a second exchange of the same
\* token, a logout, a reset) were in flight and wherever one of them died.
JetonEchange ==
    \A j \in DOMAIN jetons :
        jetons[j].parent # 0 => jetons[jetons[j].parent].etat = "revoque"

CodesUtilises(u) == {n \in DOMAIN codes[u] : codes[u][n] = "utilise"}

\* An address counts as verified, and a password is changed, only by a code of
\* its usage that is used up: nothing is done with a code that can still be
\* used, not even by a call that dies half-way.
EffetsParCode ==
    /\ compte.change => CodesUtilises("password_reset") # {}
    /\ compte.emailVerifie =>
         CodesUtilises("password_reset") \cup CodesUtilises("email_verify") # {}
=============================================================================
