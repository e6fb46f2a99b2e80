CONSTANTS
  Companies = {c1}
  Requests = {r1, r2}
  LicenseKinds <- MCSeatsOnly
  DefaultKind <- MCOneSeat
  MaxSubs = 2
  MaxLicenses = 2
  MaxMembers = 1
  MaxRows = 2
  Unlimited = Unlimited

SPECIFICATION MCSpec
SYMMETRY Symmetry
INVARIANTS
  TypeOK
  SubscriptionsSound
PROPERTY
  AddedWithinCapacity
