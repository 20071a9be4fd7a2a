\* Two requests of any kind while the validator writes and purges snapshots.
CONSTANTS
  Universe <- Validator
  ServedExts = {1, 2}
  MaxRequests = 2
SPECIFICATION Spec
INVARIANTS
  TypeOK ListedIsComplete StableIsListed ListedBestFirst BestIsServed
  UrlListingFits UrlBestIsListed
