---------------------------- MODULE MCBucketRows ----------------------------
(* BucketRows for TLC: two buckets, the USD pool of the build's            *)
(* environment, and a EUR pool that it does not name.                      *)
EXTENDS BucketRows, TLC

Buckets == <<"USD", "EUR">>

Slugs == "USD" :> "blend-usdc" @@ "EUR" :> "blend-eurc"

Addresses == "USD" :> "C-usd"

=============================================================================
