\* Two recalls whose tenants share a bucket, scraped at any time.
SPECIFICATION Spec
CONSTANTS
  r1 = r1
  r2 = r2
  b1 = b1
  Recalls = {r1, r2}
  Buckets = {b1}
  bucketOf <- OneBucket
  None = None
  MaxReturned = 1
SYMMETRY Perms
INVARIANTS TypeOK ScrapeExact TraceNotMixedUp
