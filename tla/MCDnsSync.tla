----------------------------- MODULE MCDnsSync -----------------------------
(* Small zones for DnsSync: an empty one, one with records of the owner's  *)
(* under names and priorities of dnscf's own, and one where only the       *)
(* proxied state or the content is wrong.                                  *)
EXTENDS DnsSync

CONSTANTS a1, a2, a6

MCSubdomains == <<"mail">>

OwnersZone == << Rec(Key("MX", "@", "20"), "backup", FALSE),
                 Rec(Key("TXT", "@", "none"), "other", FALSE),
                 Rec(Key("A", "www", "none"), a2, TRUE) >>

StaleZone == << Rec(Key("A", "smtp", "none"), a1, TRUE),
                Rec(Key("A", "www", "none"), a2, TRUE),
                Rec(Key("A", "mail", "none"), a2, TRUE) >>

MCZones == { << >>, OwnersZone, StaleZone }

(* The hypotheses of DnsSyncProofs' theorems hold of every instance here. *)
ASSUME ProofHypotheses == SyncsAgree /\ OneRecordEach
=============================================================================
