CONSTANTS
  files = files
  web = web
  m1 = m1
  m2 = m2
  m3 = m3
  read = read
  write = write
  fetch = fetch
  d1 = d1
  d2 = d2
  Servers = {files, web}
  Names = {read, write, fetch}
  Defs = {d1, d2}
  Mounts = {m1, m2, m3}
  ServerOf <- MCServerOf
  Offers <- MCOffers
  Clashing <- MCClashing
  Keepalive = {m1}
  Strict = {m1}
  Enabled = TRUE
  MaxAttempts = 1
  MaxNotes <- MCMaxNotes
  Environments = {{"slow", "refuse"}, {"foreign"}, {"revive"}, {"again"}, {"race"}, {"peer", "overlap"}, {"peer", "clash"}}
SPECIFICATION Spec
INVARIANT BridgeAgrees
 
PROPERTY TouchesOnlyItsOwn
CHECK_DEADLOCK FALSE
