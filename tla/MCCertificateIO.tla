-------------------------- MODULE MCCertificateIO --------------------------
(* Small instances of CertificateIO.                                       *)
EXTENDS CertificateIO

CONSTANTS c1, c2, b1, f1, p1, p2, r1, r2

Cert(body, open) == [body |-> body, isOpen |-> open, isCompleted |-> TRUE,
                     isDeleted |-> FALSE, hasUpload |-> FALSE]

Post(c, body, open) == [op |-> "postCertificate",
                        items |-> <<[certId |-> c, value |-> Cert(body, open)]>>]

Upload(c) == [op |-> "postUploadFile", items |-> <<[certId |-> c, value |-> f1]>>]

Mark(c, open) == [certId |-> c, isOpen |-> open, isCompleted |-> FALSE,
                  isDeleted |-> FALSE, isChangedOnChain |-> FALSE]

Change(statuses) == [op |-> "postChangeStatus", items |-> statuses]

OwnEvents == {<<c, c>> : c \in Certs}

(* One certificate: posted, uploaded, opened and closed, in any order.     *)
OneCertJobs == {Post(c1, b1, TRUE), Post(c1, b1, FALSE), Upload(c1),
                Change(<<Mark(c1, TRUE)>>), Change(<<Mark(c1, FALSE)>>)}

(* Batches that change none, or two certificates, or one of them twice.     *)
BatchJobs == {Change(<<>>),
              Change(<<Mark(c1, TRUE), Mark(c2, FALSE)>>),
              Change(<<Mark(c1, FALSE), Mark(c1, TRUE)>>)}
AllJobs == OneCertJobs \cup BatchJobs

TwoCerts == {c1, c2}

(* Runs that show a disagreement.                                          *)
PostUploadJobs == {Post(c1, b1, FALSE), Upload(c1)}
OpenJobs == {Post(c1, b1, FALSE), Change(<<Mark(c1, TRUE)>>)}

OneCertMatches == {<<c1, c1>>}
TwoRequests == {r1, r2}
TwoPeers == {p1, p2}
=============================================================================
