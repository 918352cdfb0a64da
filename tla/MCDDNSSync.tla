----------------------------- MODULE MCDDNSSync -----------------------------
(* Zones for DDNSSync: one record at a provider that updates in place and   *)
(* one of the other family at the provider that deletes first; one record   *)
(* alone.                                                                   *)
EXTENDS DDNSSync

MCFamilyOf == [apex |-> "v4", wild |-> "v6"]

MCProviderOf == [apex |-> "cloudflare", wild |-> "spaceship"]

MCFamilyOfOne == [apex |-> "v4"]

MCProviderOfOne == [apex |-> "godaddy"]
=============================================================================
