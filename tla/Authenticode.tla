----------------------------- MODULE Authenticode -----------------------------
(***************************************************************************)
(* Signatures of files.  A file is what the trust providers of Windows say *)
(* about it:                                                               *)
(*   embedded    status of WinVerifyTrust for the signature inside it      *)
(*   catalogue   status for the catalogue that lists its hash, or "none"   *)
(*   subject     the name in the certificate of the embedded signature     *)
(*   attributes  the attributes of its signer                              *)
(* One call may fail in a behaviour; it is an argument.                    *)
(***************************************************************************)
EXTENDS Naturals, Sequences

\* The answers of WinVerifyTrust that the switch refuses.  Any other, among them that for a
\* file which cannot be opened, counts as signed.
Refused == {"NOSIGNATURE", "BAD_DIGEST", "REVOKED", "EXPIRED", "UNTRUSTEDROOT", "CHAINING"}

VerifyEmbeddedSignature(file) == file.embedded \notin Refused

-----------------------------------------------------------------------------
(* The catalogue: the calls in order; the first that fails ends the search.  *)

CatalogCalls ==
    <<"CreateFile", "AcquireContext", "CalcHash", "EnumCatalog", "CatalogInfo", "VerifyTrust">>

\* The call that decides: a file without a catalogue is one that EnumCatalog does not find.
Deciding(file, failing) ==
    LET fails(n) == \/ CatalogCalls[n] = failing
                    \/ CatalogCalls[n] = "EnumCatalog" /\ file.catalogue = "none"
        stops == {n \in DOMAIN CatalogCalls : fails(n) \/ n = Len(CatalogCalls)}
    IN CHOOSE n \in stops : \A l \in stops : n <= l

VerifyCatalogSignature(file, failing) ==
    /\ CatalogCalls[Deciding(file, failing)] = "VerifyTrust"
    /\ failing # "VerifyTrust" /\ file.catalogue = "SUCCESS"

HasSignature(file, failing) ==
    VerifyEmbeddedSignature(file) \/ VerifyCatalogSignature(file, failing)

-----------------------------------------------------------------------------
(* The signer of the driver *)

\* What the attribute of the signer holds; a part that is not there becomes NULL, and so
\* does one that cannot be copied.
Copied(part, failing) == IF failing = "AllocString" THEN "NULL" ELSE part

\* Nothing when there is no such attribute or it cannot be decoded.
GetProgAndPublisherInfo(file, failing) ==
    IF file.attributes = "none" \/ failing \in {"DecodeSize", "AllocInfo", "Decode"}
    THEN [found |-> FALSE, program |-> "NULL"]
    ELSE [found |-> TRUE, program |-> Copied(file.attributes, failing)]

NoSubject == ""

GetCertificateSubject(file, failing) ==
    IF failing \in {"IssuerSize", "AllocIssuer", "Issuer", "SubjectSize", "AllocSubject", "Subject"}
    THEN NoSubject ELSE file.subject

\* What the name of the program was is not used.
GetSignerFromFile(file, failing) ==
    LET unused == GetProgAndPublisherInfo(file, failing)
    IN IF \/ failing \in {"QueryObject", "InfoSize", "AllocSigner", "Info", "FindCertificate"}
          \/ file.embedded \in {"NOSIGNATURE", "OTHER"}
       THEN NoSubject ELSE GetCertificateSubject(file, failing)

SignerCalls ==
    {"QueryObject", "InfoSize", "AllocSigner", "Info", "DecodeSize", "AllocInfo", "Decode",
     "AllocString", "FindCertificate", "IssuerSize", "AllocIssuer", "Issuer", "SubjectSize",
     "AllocSubject", "Subject"}

=============================================================================
