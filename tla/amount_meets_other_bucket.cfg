\* The rows move under the index of the withdraw form, and its amount stays.
SPECIFICATION Spec

CONSTANTS
  ACTIVE_BUCKET_CURRENCIES <- Buckets
  DEMO_POOL_SLUG <- Slugs
  BLEND_POOL <- Addresses
  ENV = {"CONTRACT_ID", "RPC_URL", "NETWORK_PASSPHRASE"}
  Known = {"C-usd"}
  Strangers = {"C-eur"}
  NoPool = "no pool"
  NoCurrency = "no currency"
  Values = {0, 2, 5}
  CENT = 2
  Surface = "screen"

INVARIANT
  AmountIsForItsBucket
