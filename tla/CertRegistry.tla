---------------------------- MODULE CertRegistry ----------------------------
(***************************************************************************)
(* What the service promises: one registry of certificates and files.      *)
(* Each write replaces one value, at one instant, at most once, and a      *)
(* certificate is never recorded as open, or as having a file, unless its  *)
(* file is there.  Nothing else ever changes the registry.                 *)
(***************************************************************************)
CONSTANTS Certs, Certificate, Files, NoCert, NoFile

VARIABLES
    certs,      \* the certificate under each number
    files,      \* the file under each number
    written     \* the writes that have taken effect

registryVars == <<certs, files, written>>

RegistryInit ==
    /\ certs = [c \in Certs |-> NoCert]
    /\ files = [c \in Certs |-> NoFile]
    /\ written = {}

MayRecord(c, cert) ==
    /\ cert.isOpen => cert.hasUpload
    /\ cert.hasUpload => files[c] # NoFile

(* A write has an identity, so that it can be told from its repetition.     *)
TakeOnce == \E w \in written' \ written : written' = written \cup {w}

WriteCertificate(c, cert) ==
    /\ TakeOnce
    /\ MayRecord(c, cert)
    /\ certs' = [certs EXCEPT ![c] = cert]
    /\ UNCHANGED files

WriteFile(c, file) ==
    /\ TakeOnce
    /\ files' = [files EXCEPT ![c] = file]
    /\ UNCHANGED certs

RegistryNext ==
    \E c \in Certs :
        \/ \E cert \in Certificate : WriteCertificate(c, cert)
        \/ \E file \in Files : WriteFile(c, file)

RegistrySpec == RegistryInit /\ [][RegistryNext]_registryVars
=============================================================================
