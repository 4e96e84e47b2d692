SPECIFICATION Spec
CONSTANTS
  Order <- AllProviders
  Ids <- VoiceIds
  ClipOrder <- AllClips
  Languages <- AllLanguages
  Built <- AllBuilt
  Allowlists <- SomeAllowlists
  Locales <- SomeLocales
  Installs <- OneOrTwo
  MaxEdits = 3
  Nobody = Nobody
INVARIANTS ListingMatchesLookup NoVoiceLost
PROPERTIES NoRerouting ReloadReadsDisk TagsTellClip
