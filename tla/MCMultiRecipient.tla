-------------------------- MODULE MCMultiRecipient --------------------------
(* MultiRecipient for TLC: an account with two devices, one with a single  *)
(* device, and one whose name is a phone number.                           *)
EXTENDS MultiRecipient

CONSTANTS alice, bob, phone

Addresses == {<<alice, 1>>, <<alice, 2>>, <<bob, 1>>, <<phone, 1>>}
=============================================================================
